---- MODULE Spec2Model ----
(***************************************************************************)
(* Minibatch dataloaders of graphstorm (python/graphstorm/dataloading/     *)
(* dataloading.py).                                                        *)
(*                                                                         *)
(*   SpecAE   the per-edge-type balanced loader AllEtypeDistEdgeDataLoader *)
(*   SpecLPT  the link-prediction test loader                              *)
(*            GSgnnLinkPredictionTestDataLoader, with at most MaxIters     *)
(*            __iter__ calls                                               *)
(*   SpecLPTFair  SpecLPT with a consumer that keeps calling __next__      *)
(*   SpecGL   the loaders that check their arguments and wrap a DGL        *)
(*            distributed loader: construction, __iter__, __next__         *)
(*   SpecAll  any one of the loaders above                                 *)
(*                                                                         *)
(* Tensors are sequences.  Python positions are 0-based, so the element at *)
(* position p of a tensor t is t[p + 1] and the slice t[a:b] is            *)
(* Slice(t, a, b).                                                         *)
(***************************************************************************)
EXTENDS Integers, Sequences, FiniteSets, TLC

\* ------------------------------------------------------------------ bounds
\* Largest number of target edges of a target mapping, all edge types together.
MaxTotalEdges == 5
\* Largest batch_size handed to a loader.
MaxBatch == 3
\* Largest number of __iter__ calls made on a link-prediction test loader.
MaxIters == 2
\* Largest number of target IDs of one type handed to a wrapping loader.
MaxTargetLen == 3
\* Largest number of distributed workers.
MaxWorkers == 2
\* Largest number of message-passing layers (the length of fanout).
MaxLayers == 2
\* The most failed __next__ calls followed on one loader.
MaxFails == 2
\* The most target edges of a mapping two loaders are built over.
MaxPairEdges == 3
\* The most declarations of one kind in a converter input, and the most
\* files, features, and labels of one declaration.
MaxDecls == 2
MaxItems == 2
\* The largest batch_size of a semi-supervised loader.
MaxSemiBatch == 4
\* The most labeled, and the most unlabeled, nodes of a semi-supervised loader.
MaxSemiNodes == 4

\* ----------------------------------------------------------------- helpers
\* math.ceil(a / b) for a >= 0, b > 0.
CeilDiv(a, b) == (a + b - 1) \div b

Max2(a, b) == IF a >= b THEN a ELSE b

Min2(a, b) == IF a <= b THEN a ELSE b

Range(s) == {s[i] : i \in DOMAIN s}

\* Python's t[a:b] for 0 <= a (b is clipped to len(t); empty when a >= b).
Slice(t, a, b) == SubSeq(t, a + 1, Min2(b, Len(t)))

\* th.arange(0, n)
Arange(n) == [i \in 1..n |-> i - 1]

\* The possible results of th.randperm(n): the permutations of 0..n-1.
RandPerms(n) == {[i \in 1..n |-> f[i - 1]] : f \in Permutations(0..(n - 1))}

\* A target edge ID list with n edges: distinct edge IDs counted up from
\* first (edge IDs are not the positions 0..n-1).
EidList(first, n) == [i \in 1..n |-> first + i - 1]

\* ===================================================================
\* AllEtypeDistEdgeDataLoader
\* ===================================================================
\* The keys of the target mapping, in dict order (self.dataset.items()).
AEKeys == <<"e1", "e2">>

AETypes == Range(AEKeys)

VARIABLES
    dataset,        \* self.dataset: edge type -> target edge IDs
    batch_size,     \* self.batch_size
    drop_last,      \* self.drop_last
    shuffle,        \* self.shuffle
    data_idx,       \* self.data_idx: edge type -> positions into dataset[etype]
    bs_per_type,    \* self.bs_per_type
    expected_idxs,  \* self.expected_idxs
    current_pos,    \* self.current_pos
    recv_idxs,      \* self.recv_idxs
    num_pending,    \* self.num_pending
    ae_error,       \* construction raised (ZeroDivisionError in _reinit_dataset)
    last_call,      \* the last call made on the loader: "init", "iter", "next"
    next_etype,     \* last_call = "next": what _next_data_etype returned per type
    next_ret,       \* last_call = "next": what _next_data returned
    next_out,       \* last_call = "next": what __next__ did ("batch", "stop",
                    \* "blocked"); "none" when the last call was not __next__
    ae_regular      \* edge type -> the edge IDs _next_data_etype returned
                    \* since construction or the last __iter__, in order

aeVars == <<dataset, batch_size, drop_last, shuffle, data_idx, bs_per_type,
            expected_idxs, current_pos, recv_idxs, num_pending, ae_error,
            last_call, next_etype, next_ret, next_out, ae_regular>>

\* GSgnnLinkPredictionTestDataLoader
VARIABLES
    lp_keys,           \* list(self._target_idx.keys()): the key order
    lp_target_idx,     \* self._target_idx: edge type -> target edge IDs
    lp_batch_size,     \* self._batch_size
    lp_current_pos,    \* self._current_pos
    remaining_etypes,  \* self.remaining_etypes
    lp_last,           \* the last call made on the loader: "init", "iter", "next"
    lp_out,            \* lp_last = "next": what __next__ did
    lp_log,            \* the positive-edge batches returned since construction
                       \* or the last __iter__, as <<etype, pos_eids>>
    lp_iters,          \* the number of __iter__ calls made
    lp_iter_from,      \* where the last __iter__ was called: "fresh", "mid",
                       \* "exhausted" ("none": never called)
    lp_class,          \* "base": GSgnnLinkPredictionTestDataLoader,
                       \* "joint": GSgnnLinkPredictionJointTestDataLoader
    lp_negative_sampler, \* self._negative_sampler: the class of the sampler
    lp_neg_sample_type,  \* self._neg_sample_type
    lp_fails           \* the number of __next__ calls that raised out of a
                       \* graph storage call

lpVars == <<lp_keys, lp_target_idx, lp_batch_size, lp_current_pos, remaining_etypes,
            lp_last, lp_out, lp_log, lp_iters, lp_iter_from, lp_class,
            lp_negative_sampler, lp_neg_sample_type, lp_fails>>

\* GSgnnEdgeDataLoader, GSgnnLinkPredictionDataLoader, GSgnnNodeDataLoader and
\* the construction of GSgnnLinkPredictionTestDataLoader: the loaders that
\* check their arguments and wrap a DGL distributed loader.
VARIABLES
    gl_kind,           \* the class constructed: "edge", "lp", "lp_test", "node"
                       \* ("none": no such loader in this behaviour)
    gl_phase,          \* "new" (arguments chosen, __init__ not yet run),
                       \* "ready" (__init__ returned), "failed" (__init__ raised)
    gl_error,          \* what __init__ raised ("none": nothing)
    gl_keys,           \* list(target_idx.keys()): the key order
    gl_target_idx,     \* target_idx, the caller's dict: type -> target IDs
    gl_train_task,     \* train_task
    gl_num_workers,    \* the number of distributed workers
    gl_remove,         \* remove_target_edge_type
    gl_rev_map,        \* reverse_edge_types_map (or None)
    gl_fanout,         \* fanout: one integer per layer
    gl_neg_k,          \* num_negative_edges
    gl_cf_ntypes,      \* construct_feat_ntype
    gl_cf_fanout,      \* construct_feat_fanout
    gl_feat_ntypes,    \* the node types dataset.has_node_feats is true of
    gl_target_etypes,  \* the target_etypes list handed to
                       \* modify_fanout_for_target_etype
    gl_edge_fanout,    \* the fanout the neighbor sampler was built with, per
                       \* layer and canonical edge type
    gl_sampler,        \* self._construct_feat_sampler
    gl_last,           \* the last call made on the loader: "none", "init",
                       \* "iter", "next"
    gl_under,          \* gl_last = "next": what self.dataloader.__next__() gave
    gl_ret,            \* gl_last = "next": what __next__ returned
    gl_pulled,         \* gl_last = "next": the number of
                       \* self.dataloader.__next__() calls it made
    gl_variant,        \* the link-prediction train class: "plain", "fast",
                       \* "all_etype"
    gl_edge_mask,      \* edge_mask_for_gnn_embeddings ("none": None)
    gl_mask_etypes,    \* the canonical edge types whose edge data has a field
                       \* of that name
    gl_nbr_sampler,    \* the neighbor sampler built: "plain", "masked",
                       \* "fast_masked" ("none": none built)
    gl_leak,           \* gl_last = "next": some block of the batch holds an
                       \* edge the mask does not flag
    gl_exclude,        \* exclude_training_targets
    gl_dist_args       \* the exclude and reverse_etypes arguments the DGL
                       \* distributed edge loader was built with

glVars == <<gl_kind, gl_phase, gl_error, gl_keys, gl_target_idx, gl_train_task,
            gl_num_workers, gl_remove, gl_rev_map, gl_fanout, gl_neg_k,
            gl_cf_ntypes, gl_cf_fanout, gl_feat_ntypes, gl_target_etypes,
            gl_edge_fanout, gl_sampler, gl_last, gl_under, gl_ret, gl_pulled,
            gl_variant, gl_edge_mask, gl_mask_etypes, gl_nbr_sampler, gl_leak,
            gl_exclude, gl_dist_args>>

\* The loader the behaviour constructs and calls: "balanced", "lp_test" or
\* "wrapper".
\* GSgnnNodeSemiSupDataLoader
VARIABLES
    ss_phase,          \* "ready": constructed; "failed": __init__ raised
                       \* ("idle": not under study)
    ss_batch_size,     \* the batch_size given to __init__
    ss_n_labeled,      \* the number of target nodes (after trimming)
    ss_n_unlabeled,    \* the number of unlabeled nodes (after trimming)
    ss_labeled_bs,     \* the batch size of self.dataloader
    ss_unlabeled_bs,   \* the batch size of self.unlabeled_dataloader
    ss_labeled_pos,    \* the batches self.dataloader gave in its epoch
    ss_unlabeled_pos,  \* the batches self.unlabeled_dataloader gave in its epoch
    ss_zip,            \* an object returned by __iter__ exists
    ss_last,           \* the last call: "init", "iter", "zip_next", "next"
    ss_out,            \* what the last zip step or __next__ did
    ss_log,            \* the pairs returned since construction or the last
                       \* __iter__, as <<labeled batch, unlabeled batch>>
    ss_iters           \* the number of __iter__ calls made

ssVars == <<ss_phase, ss_batch_size, ss_n_labeled, ss_n_unlabeled, ss_labeled_bs,
            ss_unlabeled_bs, ss_labeled_pos, ss_unlabeled_pos, ss_zip, ss_last,
            ss_out, ss_log, ss_iters>>

\* Two loaders of one class, GSgnnLinkPredictionTestDataLoader or
\* AllEtypeDistEdgeDataLoader, built over the same target mapping. The
\* attributes are indexed by the instance that holds them.
VARIABLES
    pr_kind,           \* "lp_test", "balanced" ("idle": not under study)
    pr_target,         \* the target mapping given to both constructors
    pr_bsz,            \* instance -> its batch size
    pr_drop_last,      \* balanced: drop_last of both instances
    pr_shuffle,        \* balanced: shuffle of both instances
    pr_pos,            \* instance -> self._current_pos / self.current_pos
    pr_remaining,      \* lp_test: instance -> self.remaining_etypes
    pr_data_idx,       \* balanced: instance -> self.data_idx
    pr_last            \* the last call: the instance it was made on and
                       \* "iter" or "next" (instance 0, "init": none yet)

prVars == <<pr_kind, pr_target, pr_bsz, pr_drop_last, pr_shuffle, pr_pos,
            pr_remaining, pr_data_idx, pr_last>>

\* GConstructConfigConverter
VARIABLES
    cv_input,          \* the input dictionary: its "nodes" and "edges" lists,
                       \* each present or not
    cv_call,           \* the last call: "convert_nodes", "convert_edges",
                       \* "convert_to_gsprocessing" ("none": none yet)
    cv_out             \* what the last call did: the records or the document
                       \* returned, or ValueError

cvVars == <<cv_input, cv_call, cv_out>>

\* NoopTransformation
VARIABLES
    np_df,             \* input_df: column name -> data type
    np_cols,           \* self.cols
    np_separator,      \* self.separator ("none": None)
    np_out             \* what apply did: the dataframe returned, or the
                       \* exception raised ("none": not called)

\* remove_test_mask
VARIABLES
    rm_data,           \* data: tensor name -> tensor
    rm_out             \* what remove_test_mask returned ("none": not called)

toolVars == <<np_df, np_cols, np_separator, np_out, rm_data, rm_out>>

VARIABLE under_study

\* The variables of the loaders and functions modelled after the first three.
laterVars == <<ssVars, prVars, cvVars, toolVars>>

vars == <<aeVars, lpVars, glVars, laterVars, under_study>>

\* The variables of the other loaders, which a call on the balanced loader
\* leaves alone.
nonAeVars == <<lpVars, glVars, laterVars, under_study>>

\* The variables of the other loaders, which a call on the test loader
\* leaves alone.
nonLpVars == <<aeVars, glVars, laterVars, under_study>>

\* The variables of the other loaders, which a call on a wrapping loader
\* leaves alone.
nonGlVars == <<aeVars, lpVars, laterVars, under_study>>

\* The variables a call on a semi-supervised loader leaves alone.
nonSsVars == <<aeVars, lpVars, glVars, prVars, cvVars, toolVars, under_study>>

\* The variables a call on one of the two loaders over one mapping leaves
\* alone.
nonPrVars == <<aeVars, lpVars, glVars, ssVars, cvVars, toolVars, under_study>>

\* The variables a call of the converter leaves alone.
nonCvVars == <<aeVars, lpVars, glVars, ssVars, prVars, toolVars, under_study>>

\* The variables a call of NoopTransformation.apply or of remove_test_mask
\* leaves alone.
nonToolVars == <<aeVars, lpVars, glVars, ssVars, prVars, cvVars, under_study>>

\* None, as the result of _next_data_etype and of _next_data.
NoneEtype == [none |-> TRUE, ids |-> <<>>]

NoneRet == [none |-> TRUE, items |-> <<>>]

\* total_edges of _reinit_dataset.
TotalEdges(ds) ==
    LET RECURSIVE Sum(_)
        Sum(k) == IF k = 0 THEN 0 ELSE Len(ds[AEKeys[k]]) + Sum(k - 1)
    IN Sum(Len(AEKeys))

\* bs = math.ceil(batch_size * len(idxs) / total_edges)
BsPerTypeFloorPlusOne(bsz, n, total) == ((bsz * n) \div total) + 1
BsPerType(bsz, n, total) == CeilDiv(bsz * n, total)

\* exp_idxs = len(idxs) // bs; if not drop_last and len(idxs) % bs != 0: += 1
ExpIdxsAlwaysCeil(n, bs, dl) == (n \div bs) + (IF n % bs # 0 THEN 1 ELSE 0)
ExpIdxs(n, bs, dl) == (n \div bs) + (IF ~dl /\ n % bs # 0 THEN 1 ELSE 0)

\* Whether _reinit_dataset raises ZeroDivisionError: total_edges is 0, or the
\* bs of some type is 0 (len(idxs) // bs).
ReinitRaises(ds, bsz) ==
    \/ TotalEdges(ds) = 0
    \/ \E e \in AETypes : BsPerType(bsz, Len(ds[e]), TotalEdges(ds)) = 0

\* max_expected_idxs of _reinit_dataset, over the types in dict order.
MaxExpectedIdxs(ds, bsz, dl) ==
    LET total == TotalEdges(ds)
        RECURSIVE Fold(_)
        Fold(k) ==
            IF k = 0 THEN 0
            ELSE LET n == Len(ds[AEKeys[k]])
                 IN Max2(Fold(k - 1), ExpIdxs(n, BsPerType(bsz, n, total), dl))
    IN Fold(Len(AEKeys))

\* __init__ -> _reinit_dataset, for the inputs (ds, bsz, dl, sh).
AEConstruct(ds, bsz, dl, sh) ==
    /\ dataset = ds
    /\ batch_size = bsz
    /\ drop_last = dl
    /\ shuffle = sh
    /\ data_idx = [e \in AETypes |-> Arange(Len(ds[e]))]
    /\ ae_error = ReinitRaises(ds, bsz)
    /\ bs_per_type = IF ReinitRaises(ds, bsz) THEN [e \in AETypes |-> 0]
                     ELSE [e \in AETypes |-> BsPerType(bsz, Len(ds[e]), TotalEdges(ds))]
    /\ expected_idxs = IF ReinitRaises(ds, bsz) THEN 0 ELSE MaxExpectedIdxs(ds, bsz, dl)
    /\ current_pos = [e \in AETypes |-> 0]
    /\ recv_idxs = 0
    /\ num_pending = 0
    /\ last_call = "init"
    /\ next_etype = [e \in AETypes |-> NoneEtype]
    /\ next_ret = NoneRet
    /\ next_out = "none"
    /\ ae_regular = [e \in AETypes |-> <<>>]

\* The target mappings: every type with 0 or more edges, the IDs of the two
\* types either overlapping (both count from 0) or disjoint.
AEDatasets ==
    {[e \in AETypes |-> EidList(first[e], lens[e])] :
        lens \in {l \in [AETypes -> 0..MaxTotalEdges] :
                    l[AEKeys[1]] + l[AEKeys[2]] <= MaxTotalEdges},
        first \in {[e \in AETypes |-> 0],
                   [e \in AETypes |-> IF e = AEKeys[1] THEN 10 ELSE 20]}}

AEInputs ==
    \E ds \in AEDatasets : \E bsz \in 1..MaxBatch : \E dl, sh \in BOOLEAN :
        AEConstruct(ds, bsz, dl, sh)

\* {etype: th.randperm(len(idxs)) for etype, idxs in self.data_idx.items()}
Reshuffled ==
    {[e \in AETypes |-> IF e = AEKeys[1] THEN pa ELSE pb] :
        pa \in RandPerms(Len(data_idx[AEKeys[1]])),
        pb \in RandPerms(Len(data_idx[AEKeys[2]]))}

\* __iter__
AEIterNoPosReset ==
    /\ ~ae_error
    /\ data_idx' \in IF shuffle THEN Reshuffled ELSE {data_idx}
    /\ recv_idxs' = 0
    /\ num_pending' = 0
    /\ last_call' = "iter"
    /\ next_etype' = [e \in AETypes |-> NoneEtype]
    /\ next_ret' = NoneRet
    /\ next_out' = "none"
    /\ ae_regular' = [e \in AETypes |-> <<>>]
    /\ UNCHANGED <<dataset, batch_size, drop_last, shuffle, bs_per_type, expected_idxs,
                   ae_error, current_pos>>
    /\ UNCHANGED nonAeVars
AEIter ==
    /\ ~ae_error
    /\ data_idx' \in IF shuffle THEN Reshuffled ELSE {data_idx}
    /\ current_pos' = [e \in AETypes |-> 0]
    /\ recv_idxs' = 0
    /\ num_pending' = 0
    /\ last_call' = "iter"
    /\ next_etype' = [e \in AETypes |-> NoneEtype]
    /\ next_ret' = NoneRet
    /\ next_out' = "none"
    /\ ae_regular' = [e \in AETypes |-> <<>>]
    /\ UNCHANGED <<dataset, batch_size, drop_last, shuffle, bs_per_type, expected_idxs,
                   ae_error>>
    /\ UNCHANGED nonAeVars

\* _next_data_etype(etype): the value returned and the new current_pos[etype].
NextDataEtypeSkipTail(e) ==
    LET n == Len(dataset[e])
        cp == current_pos[e]
        bs == bs_per_type[e]
    IN IF cp = n THEN [none |-> TRUE, ids |-> <<>>, pos |-> cp]
       ELSE IF cp + bs > n /\ drop_last THEN [none |-> TRUE, ids |-> <<>>, pos |-> n]
       ELSE LET end_pos == IF cp + bs > n THEN n ELSE cp + bs
                idx == Slice(data_idx[e], cp, end_pos)
            IN [none |-> FALSE,
                ids |-> [k \in 1..Len(idx) |-> dataset[e][idx[k] + 1]],
                pos |-> end_pos]
NextDataEtypeShortTail(e) ==
    LET n == Len(dataset[e])
        cp == current_pos[e]
        bs == bs_per_type[e]
    IN IF cp = n THEN [none |-> TRUE, ids |-> <<>>, pos |-> cp]
       ELSE IF cp + bs > n /\ drop_last THEN [none |-> TRUE, ids |-> <<>>, pos |-> cp]
       ELSE LET end_pos == IF cp + bs > n THEN n ELSE cp + bs
                idx == Slice(data_idx[e], cp, IF cp + bs > n THEN n - 1 ELSE end_pos)
            IN [none |-> FALSE,
                ids |-> [k \in 1..Len(idx) |-> dataset[e][idx[k] + 1]],
                pos |-> end_pos]
NextDataEtype(e) ==
    LET n == Len(dataset[e])
        cp == current_pos[e]
        bs == bs_per_type[e]
    IN IF cp = n THEN [none |-> TRUE, ids |-> <<>>, pos |-> cp]
       ELSE IF cp + bs > n /\ drop_last THEN [none |-> TRUE, ids |-> <<>>, pos |-> cp]
       ELSE LET end_pos == IF cp + bs > n THEN n ELSE cp + bs
                idx == Slice(data_idx[e], cp, end_pos)
            IN [none |-> FALSE,
                ids |-> [k \in 1..Len(idx) |-> dataset[e][idx[k] + 1]],
                pos |-> end_pos]

\* _rand_gen(etype): the edge IDs it may return.
RandGenAnyType(e) == UNION {Range(dataset[t]) : t \in AETypes}
RandGen(e) == {dataset[e][i + 1] : i \in 0..(Len(dataset[e]) - 1)}

\* end of _next_data: every type returned None.
EndAnyNone(r) == \E e \in AETypes : r[e].none
EndOfEpoch(r) == \A e \in AETypes : r[e].none

\* new_ret of _next_data: per type in dict order, the redrawn edge pick[etype]
\* if the type returned None, else its edges.
NewRetSkipNone(r, pick) ==
    LET RECURSIVE Build(_)
        Build(k) ==
            IF k = 0 THEN <<>>
            ELSE LET e == AEKeys[k]
                 IN Build(k - 1) \o
                    (IF r[e].none THEN <<>>
                     ELSE [j \in 1..Len(r[e].ids) |-> <<e, r[e].ids[j]>>])
    IN Build(Len(AEKeys))
NewRet(r, pick) ==
    LET RECURSIVE Build(_)
        Build(k) ==
            IF k = 0 THEN <<>>
            ELSE LET e == AEKeys[k]
                 IN Build(k - 1) \o
                    (IF r[e].none THEN << <<e, pick[e]>> >>
                     ELSE [j \in 1..Len(r[e].ids) |-> <<e, r[e].ids[j]>>])
    IN Build(Len(AEKeys))

\* The redrawn edges _next_data may need: one _rand_gen result for every type
\* that returned None (0 stands for "not drawn").
RandPicks(r) ==
    {[e \in AETypes |-> IF e = AEKeys[1] THEN pa ELSE pb] :
        pa \in (IF r[AEKeys[1]].none THEN RandGen(AEKeys[1]) ELSE {0}),
        pb \in (IF r[AEKeys[2]].none THEN RandGen(AEKeys[2]) ELSE {0})}

\* _next_data: asks every type for its next edges (which moves current_pos),
\* returns None if all of them returned None and new_ret otherwise.
AENextData ==
    LET r == [e \in AETypes |-> NextDataEtype(e)]
    IN /\ next_etype' = [e \in AETypes |-> [none |-> r[e].none, ids |-> r[e].ids]]
       /\ ae_regular' = [e \in AETypes |-> ae_regular[e] \o r[e].ids]
       /\ current_pos' = [e \in AETypes |-> r[e].pos]
       /\ IF EndOfEpoch(r) THEN next_ret' = NoneRet
          ELSE \E pick \in RandPicks(r) :
                 next_ret' = [none |-> FALSE, items |-> NewRet(r, pick)]

\* The inherited DistDataLoader.__next__ with num_workers=0: one
\* _request_next_batch (which calls _next_data and queues the collated batch
\* unless it is None), then a batch is taken from the queue while
\* recv_idxs < expected_idxs, and StopIteration is raised otherwise.
AENext ==
    /\ ~ae_error
    /\ AENextData
    /\ LET pending == IF next_ret'.none THEN num_pending ELSE num_pending + 1
       IN IF recv_idxs < expected_idxs /\ pending > 0
          THEN /\ recv_idxs' = recv_idxs + 1
               /\ num_pending' = pending - 1
               /\ next_out' = "batch"
          ELSE /\ recv_idxs' = recv_idxs
               /\ num_pending' = pending
               /\ next_out' = IF recv_idxs < expected_idxs THEN "blocked" ELSE "stop"
    /\ last_call' = "next"
    /\ UNCHANGED <<dataset, batch_size, drop_last, shuffle, data_idx, bs_per_type,
                   expected_idxs, ae_error>>
    /\ UNCHANGED nonAeVars

\* ===================================================================
\* GSgnnLinkPredictionTestDataLoader
\* ===================================================================
\* The edge types of the graph a target mapping may name.
LPTypes == {"e1", "e2", "e3"}

\* No __next__ result.
LpNoOut == [kind |-> "none", etype |-> "", eids |-> <<>>, end |-> FALSE,
            neg_by |-> "", tag |-> ""]

BUILTIN_LP_UNIFORM_NEG_SAMPLER == "uniform"
BUILTIN_LP_JOINT_NEG_SAMPLER == "joint"

\* _prepare_negative_sampler: the sampler built
LpNegativeSampler(cls) ==
    IF cls = "joint" THEN "JointUniform" ELSE "GlobalUniform"

\* _prepare_negative_sampler: self._neg_sample_type
LpNegSampleTypeBaseTag(cls) == BUILTIN_LP_UNIFORM_NEG_SAMPLER
LpNegSampleType(cls) ==
    IF cls = "joint" THEN BUILTIN_LP_JOINT_NEG_SAMPLER
    ELSE BUILTIN_LP_UNIFORM_NEG_SAMPLER

\* _next_data: self._current_pos[etype] when find_edges or gen_neg_pairs
\* raises; the position moves after both calls.
LpPosAtRaiseMoved(cp, bsz) == cp + bsz
LpPosAtRaise(cp, bsz) == cp

\* _reinit_dataset: self._current_pos
LpFreshPos(keys) == [e \in Range(keys) |-> 0]

\* _reinit_dataset: self.remaining_etypes
LpFreshRemaining(keys) == keys

\* _next_data: end_of_etype
LpEndOfEtypeStrict(cp, bsz, n) == cp + bsz > n
LpEndOfEtype(cp, bsz, n) == cp + bsz >= n

\* _next_data: pos_eids
LpPosEids(t, cp, bsz) ==
    IF LpEndOfEtype(cp, bsz, Len(t)) THEN Slice(t, cp, Len(t))
    ELSE Slice(t, cp, cp + bsz)

\* _next_data: self._current_pos[etype] += self._batch_size
LpAdvanceByOne(cp, bsz) == cp + 1
LpAdvance(cp, bsz) == cp + bsz

\* __next__: curr_etype = self.remaining_etypes[0]
LpCurrEtypeLast(rem) == rem[Len(rem)]
LpCurrEtype(rem) == rem[1]

\* __init__ -> _reinit_dataset, for the inputs (keys, tidx, bsz).
LPConstruct(cls, keys, tidx, bsz) ==
    /\ lp_class = cls
    /\ lp_negative_sampler = LpNegativeSampler(cls)
    /\ lp_neg_sample_type = LpNegSampleType(cls)
    /\ lp_fails = 0
    /\ lp_keys = keys
    /\ lp_target_idx = tidx
    /\ lp_batch_size = bsz
    /\ lp_current_pos = LpFreshPos(keys)
    /\ remaining_etypes = LpFreshRemaining(keys)
    /\ lp_last = "init"
    /\ lp_out = LpNoOut
    /\ lp_log = <<>>
    /\ lp_iters = 0
    /\ lp_iter_from = "none"

\* The key orders of the target mappings: the edge types named, each once.
LPKeyOrders ==
    {k \in UNION {[1..m -> LPTypes] : m \in 0..Cardinality(LPTypes)} :
        \A i, j \in DOMAIN k : k[i] = k[j] => i = j}

RECURSIVE SumLens(_, _)
SumLens(keys, lens) ==
    IF keys = <<>> THEN 0 ELSE lens[keys[1]] + SumLens(Tail(keys), lens)

\* The target mappings over the key order keys: every type with 0 or more
\* edges, edge IDs counted up from 10.
LPTargets(keys) ==
    {[e \in Range(keys) |-> EidList(10, lens[e])] :
        lens \in {l \in [Range(keys) -> 0..MaxTotalEdges] :
                    SumLens(keys, l) <= MaxTotalEdges}}

LPInputs ==
    \E cls \in {"base", "joint"} :
    \E keys \in LPKeyOrders : \E tidx \in LPTargets(keys) : \E bsz \in 1..MaxBatch :
        LPConstruct(cls, keys, tidx, bsz)

\* Where the loader stands in its epoch.
LpWhere ==
    IF remaining_etypes = <<>> THEN "exhausted"
    ELSE IF lp_log = <<>> THEN "fresh" ELSE "mid"

\* __iter__ -> _reinit_dataset
LPIterKeepsPos ==
    /\ lp_iters < MaxIters
    /\ lp_current_pos' = lp_current_pos
    /\ remaining_etypes' = LpFreshRemaining(lp_keys)
    /\ lp_last' = "iter"
    /\ lp_out' = LpNoOut
    /\ lp_log' = <<>>
    /\ lp_iters' = lp_iters + 1
    /\ lp_iter_from' = LpWhere
    /\ UNCHANGED <<lp_keys, lp_target_idx, lp_batch_size, lp_class,
                   lp_negative_sampler, lp_neg_sample_type, lp_fails>>
    /\ UNCHANGED nonLpVars
LPIter ==
    /\ lp_iters < MaxIters
    /\ lp_current_pos' = LpFreshPos(lp_keys)
    /\ remaining_etypes' = LpFreshRemaining(lp_keys)
    /\ lp_last' = "iter"
    /\ lp_out' = LpNoOut
    /\ lp_log' = <<>>
    /\ lp_iters' = lp_iters + 1
    /\ lp_iter_from' = LpWhere
    /\ UNCHANGED <<lp_keys, lp_target_idx, lp_batch_size, lp_class,
                   lp_negative_sampler, lp_neg_sample_type, lp_fails>>
    /\ UNCHANGED nonLpVars

\* __next__ when some type remains: the next batch of the first remaining
\* type (_next_data), which is popped with its last batch.
LPNextBatch ==
    LET e == LpCurrEtype(remaining_etypes)
        cp == lp_current_pos[e]
        t == lp_target_idx[e]
        eids == LpPosEids(t, cp, lp_batch_size)
        end == LpEndOfEtype(cp, lp_batch_size, Len(t))
    IN /\ lp_current_pos' = [lp_current_pos EXCEPT ![e] = LpAdvance(cp, lp_batch_size)]
       /\ remaining_etypes' = IF end THEN Tail(remaining_etypes) ELSE remaining_etypes
       /\ lp_out' = [kind |-> "batch", etype |-> e, eids |-> eids, end |-> end,
                     neg_by |-> lp_negative_sampler, tag |-> lp_neg_sample_type]
       /\ lp_log' = Append(lp_log, <<e, eids>>)

\* __next__: StopIteration when no type remains, else the next batch.
LPNextRestarts ==
    /\ lp_last' = "next"
    /\ IF Len(remaining_etypes) = 0
       THEN /\ lp_out' = [LpNoOut EXCEPT !.kind = "stop"]
            /\ lp_current_pos' = LpFreshPos(lp_keys)
            /\ remaining_etypes' = LpFreshRemaining(lp_keys)
            /\ lp_log' = <<>>
       ELSE LPNextBatch
    /\ UNCHANGED <<lp_keys, lp_target_idx, lp_batch_size, lp_iters, lp_iter_from,
                   lp_class, lp_negative_sampler, lp_neg_sample_type, lp_fails>>
    /\ UNCHANGED nonLpVars
LPNext ==
    /\ lp_last' = "next"
    /\ IF Len(remaining_etypes) = 0
       THEN /\ lp_out' = [LpNoOut EXCEPT !.kind = "stop"]
            /\ UNCHANGED <<lp_current_pos, remaining_etypes, lp_log>>
       ELSE LPNextBatch
    /\ UNCHANGED <<lp_keys, lp_target_idx, lp_batch_size, lp_iters, lp_iter_from,
                   lp_class, lp_negative_sampler, lp_neg_sample_type, lp_fails>>
    /\ UNCHANGED nonLpVars

\* __next__ when g.find_edges or gen_neg_pairs raises inside _next_data:
\* the exception leaves __next__, nothing is returned and the pop is not
\* reached.
LPNextRaises ==
    /\ lp_fails < MaxFails
    /\ Len(remaining_etypes) # 0
    /\ LET e == LpCurrEtype(remaining_etypes)
           cp == lp_current_pos[e]
       IN /\ lp_current_pos' = [lp_current_pos EXCEPT ![e] = LpPosAtRaise(cp, lp_batch_size)]
          /\ lp_out' = [LpNoOut EXCEPT !.kind = "error", !.etype = e,
                                       !.eids = LpPosEids(lp_target_idx[e], cp, lp_batch_size)]
    /\ lp_last' = "next"
    /\ lp_fails' = lp_fails + 1
    /\ UNCHANGED <<lp_keys, lp_target_idx, lp_batch_size, remaining_etypes, lp_log,
                   lp_iters, lp_iter_from, lp_class, lp_negative_sampler,
                   lp_neg_sample_type>>
    /\ UNCHANGED nonLpVars

\* The batches __next__ returns from positions pos and remaining types rem
\* up to StopIteration.
RECURSIVE LpEpochFrom(_, _)
LpEpochFrom(pos, rem) ==
    IF Len(rem) = 0 THEN <<>>
    ELSE LET e == LpCurrEtype(rem)
             t == lp_target_idx[e]
             eids == LpPosEids(t, pos[e], lp_batch_size)
             end == LpEndOfEtype(pos[e], lp_batch_size, Len(t))
         IN << <<e, eids>> >> \o
            LpEpochFrom([pos EXCEPT ![e] = LpAdvance(pos[e], lp_batch_size)],
                        IF end THEN Tail(rem) ELSE rem)

\* ===================================================================
\* GSgnnNodeSemiSupDataLoader
\* ===================================================================
\* __init__: the batch size given to each of the two loaders
SemiBatchSizeRoundedUp(bsz) == (bsz + 1) \div 2
SemiBatchSize(bsz) == bsz \div 2

\* DistNodeDataLoader(bsz=0) raises in its constructor.
DistLoaderRaises(bsz) == bsz = 0

\* The batches a DistNodeDataLoader over n nodes gives per epoch (it keeps
\* the last, smaller batch).
DistNumBatches(n, bsz) == CeilDiv(n, bsz)

\* No result.
SemiNoOut == [kind |-> "none", pair |-> <<>>]

\* One step of both loaders, the labeled one first: a pair of the next
\* batch of each, or StopIteration from the first loader that is exhausted
\* (a labeled batch taken before the unlabeled loader stops is dropped).
SemiStepFillsShorter(lpos, upos, nl, nu) ==
    IF lpos >= nl /\ upos >= nu
    THEN [out |-> [SemiNoOut EXCEPT !.kind = "stop"], lpos |-> lpos, upos |-> upos]
    ELSE [out |-> [kind |-> "pair", pair |-> <<Min2(lpos + 1, nl), Min2(upos + 1, nu)>>],
          lpos |-> Min2(lpos + 1, nl), upos |-> Min2(upos + 1, nu)]
SemiStep(lpos, upos, nl, nu) ==
    IF lpos >= nl
    THEN [out |-> [SemiNoOut EXCEPT !.kind = "stop"], lpos |-> lpos, upos |-> upos]
    ELSE IF upos >= nu
    THEN [out |-> [SemiNoOut EXCEPT !.kind = "stop"], lpos |-> lpos + 1, upos |-> upos]
    ELSE [out |-> [kind |-> "pair", pair |-> <<lpos + 1, upos + 1>>],
          lpos |-> lpos + 1, upos |-> upos + 1]

\* __init__, for the inputs (bsz, n_labeled, n_unlabeled).
SemiConstruct(bsz, n_labeled, n_unlabeled) ==
    /\ ss_batch_size = bsz
    /\ ss_n_labeled = n_labeled
    /\ ss_n_unlabeled = n_unlabeled
    /\ ss_labeled_bs = SemiBatchSize(bsz)
    /\ ss_unlabeled_bs = SemiBatchSize(bsz)
    /\ ss_phase = IF DistLoaderRaises(SemiBatchSize(bsz)) THEN "failed" ELSE "ready"
    /\ ss_labeled_pos = 0
    /\ ss_unlabeled_pos = 0
    /\ ss_zip = FALSE
    /\ ss_last = "init"
    /\ ss_out = SemiNoOut
    /\ ss_log = <<>>
    /\ ss_iters = 0

SemiInputs ==
    \E bsz \in 1..MaxSemiBatch :
    \E n_labeled \in 0..MaxSemiNodes : \E n_unlabeled \in 0..MaxSemiNodes :
        SemiConstruct(bsz, n_labeled, n_unlabeled)

SemiIdle ==
    /\ ss_phase = "idle"
    /\ ss_batch_size = 0
    /\ ss_n_labeled = 0
    /\ ss_n_unlabeled = 0
    /\ ss_labeled_bs = 0
    /\ ss_unlabeled_bs = 0
    /\ ss_labeled_pos = 0
    /\ ss_unlabeled_pos = 0
    /\ ss_zip = FALSE
    /\ ss_last = "init"
    /\ ss_out = SemiNoOut
    /\ ss_log = <<>>
    /\ ss_iters = 0

\* __iter__: both loaders start their epoch; the zip of the two is returned.
SemiIter ==
    /\ ss_phase = "ready"
    /\ ss_iters < MaxIters
    /\ ss_labeled_pos' = 0
    /\ ss_unlabeled_pos' = 0
    /\ ss_zip' = TRUE
    /\ ss_last' = "iter"
    /\ ss_out' = SemiNoOut
    /\ ss_log' = <<>>
    /\ ss_iters' = ss_iters + 1
    /\ UNCHANGED <<ss_phase, ss_batch_size, ss_n_labeled, ss_n_unlabeled,
                   ss_labeled_bs, ss_unlabeled_bs>>
    /\ UNCHANGED nonSsVars

\* What a step of both loaders leaves, after the call named by last.
SemiStepped(last) ==
    LET s == SemiStep(ss_labeled_pos, ss_unlabeled_pos,
                      DistNumBatches(ss_n_labeled, ss_labeled_bs),
                      DistNumBatches(ss_n_unlabeled, ss_unlabeled_bs))
    IN /\ ss_labeled_pos' = s.lpos
       /\ ss_unlabeled_pos' = s.upos
       /\ ss_out' = s.out
       /\ ss_log' = IF s.out.kind = "pair" THEN Append(ss_log, s.out.pair) ELSE ss_log
       /\ ss_last' = last
       /\ UNCHANGED <<ss_phase, ss_batch_size, ss_n_labeled, ss_n_unlabeled,
                      ss_labeled_bs, ss_unlabeled_bs, ss_zip, ss_iters>>
       /\ UNCHANGED nonSsVars

\* next() on the object returned by __iter__
SemiZipNext ==
    /\ ss_phase = "ready"
    /\ ss_zip
    /\ SemiStepped("zip_next")

\* __next__
SemiNext ==
    /\ ss_phase = "ready"
    /\ SemiStepped("next")

\* ===================================================================
\* Two loaders over one target mapping
\* ===================================================================
Instances == {1, 2}

\* self: the instance whose attributes a method of instance i reads and
\* assigns (self._current_pos = ..., self.remaining_etypes = ...,
\* self.data_idx = ..., self.current_pos = ...).
SelfShared(i) == 1
Self(i) == i

\* _next_data_etype: self.current_pos[etype] after the call, for a type of n
\* edges at position cp with per-type batch size bs.
PairNextPos(n, cp, bs, dl) ==
    IF cp = n THEN cp
    ELSE IF cp + bs > n /\ dl THEN cp
    ELSE IF cp + bs > n THEN n ELSE cp + bs

\* The state both constructors leave (_reinit_dataset of either class).
PairConstruct(kind, target, bsz, dl, sh) ==
    /\ pr_kind = kind
    /\ pr_target = target
    /\ pr_bsz = bsz
    /\ pr_drop_last = dl
    /\ pr_shuffle = sh
    /\ pr_pos = [i \in Instances |-> [e \in AETypes |-> 0]]
    /\ pr_remaining = [i \in Instances |->
                         IF kind = "lp_test" THEN LpFreshRemaining(AEKeys) ELSE <<>>]
    /\ pr_data_idx = [i \in Instances |-> [e \in AETypes |-> Arange(Len(target[e]))]]
    /\ pr_last = [inst |-> 0, call |-> "init"]

\* The target mappings two loaders are built over.
PairTargets ==
    {[e \in AETypes |-> EidList(10, lens[e])] :
        lens \in {l \in [AETypes -> 0..MaxPairEdges] :
                    l[AEKeys[1]] + l[AEKeys[2]] <= MaxPairEdges}}

PairInputs ==
    \E target \in PairTargets : \E bsz \in [Instances -> 1..MaxBatch] :
        \/ PairConstruct("lp_test", target, bsz, FALSE, FALSE)
        \/ \E dl, sh \in BOOLEAN :
              /\ \A i \in Instances : ~ReinitRaises(target, bsz[i])
              /\ PairConstruct("balanced", target, bsz, dl, sh)

PairIdle ==
    PairConstruct("idle", [e \in AETypes |-> <<>>], [i \in Instances |-> 1], FALSE, FALSE)

\* __iter__ on instance i: _reinit_dataset of the test loader;
\* AllEtypeDistEdgeDataLoader.__iter__ of the balanced loader.
PairIter(i) ==
    /\ pr_kind \in {"lp_test", "balanced"}
    /\ pr_pos' = [pr_pos EXCEPT ![Self(i)] = [e \in AETypes |-> 0]]
    /\ pr_remaining' = IF pr_kind = "lp_test"
                       THEN [pr_remaining EXCEPT ![Self(i)] = LpFreshRemaining(AEKeys)]
                       ELSE pr_remaining
    /\ \E pa \in RandPerms(Len(pr_target[AEKeys[1]])) :
       \E pb \in RandPerms(Len(pr_target[AEKeys[2]])) :
          pr_data_idx' = IF pr_kind = "balanced" /\ pr_shuffle
                         THEN [pr_data_idx EXCEPT ![Self(i)] =
                                 [e \in AETypes |-> IF e = AEKeys[1] THEN pa ELSE pb]]
                         ELSE pr_data_idx
    /\ pr_last' = [inst |-> i, call |-> "iter"]
    /\ UNCHANGED <<pr_kind, pr_target, pr_bsz, pr_drop_last, pr_shuffle>>
    /\ UNCHANGED nonPrVars

\* __next__ on instance i: of the test loader, the next batch of the first
\* remaining type; of the balanced loader, _next_data over every type.
PairNext(i) ==
    /\ pr_kind \in {"lp_test", "balanced"}
    /\ IF pr_kind = "lp_test"
       THEN IF Len(pr_remaining[Self(i)]) = 0
            THEN UNCHANGED <<pr_pos, pr_remaining>>
            ELSE LET e == LpCurrEtype(pr_remaining[Self(i)])
                     cp == pr_pos[Self(i)][e]
                     end == LpEndOfEtype(cp, pr_bsz[i], Len(pr_target[e]))
                 IN /\ pr_pos' = [pr_pos EXCEPT ![Self(i)][e] = LpAdvance(cp, pr_bsz[i])]
                    /\ pr_remaining' = IF end
                                       THEN [pr_remaining EXCEPT ![Self(i)] = Tail(@)]
                                       ELSE pr_remaining
       ELSE /\ pr_pos' = [pr_pos EXCEPT ![Self(i)] =
                            [e \in AETypes |->
                               PairNextPos(Len(pr_target[e]), pr_pos[Self(i)][e],
                                           BsPerType(pr_bsz[i], Len(pr_target[e]),
                                                     TotalEdges(pr_target)),
                                           pr_drop_last)]]
            /\ UNCHANGED pr_remaining
    /\ pr_last' = [inst |-> i, call |-> "next"]
    /\ UNCHANGED <<pr_kind, pr_target, pr_bsz, pr_drop_last, pr_shuffle, pr_data_idx>>
    /\ UNCHANGED nonPrVars

\* ===================================================================
\* GConstructConfigConverter
\* ===================================================================
\* A file path is the sequence of its characters; these three stand for
\* "a.parquet", "a*.parquet" and "?a.parquet".
CvPaths == {<<"a", ".", "p">>, <<"a", "*", ".", "p">>, <<"?", "a", ".", "p">>}

\* "*" in file_name or "?" in file_name
HasWildcard(path) == \E i \in DOMAIN path : path[i] \in {"*", "?"}

\* The files of a declaration as a list: a string is wrapped into a list of
\* one.
FilesList(files) == IF files.form = "str" THEN <<files.paths[1]>> ELSE files.paths

\* A declaration is rejected for its files when one of them has a wildcard.
FilesRejectedStringOnly(files) == files.form = "str" /\ HasWildcard(files.paths[1])
FilesRejected(files) ==
    \E i \in DOMAIN FilesList(files) : HasWildcard(FilesList(files)[i])

\* A feature is rejected for its transform unless it has none or names the
\* pass-through transform.
TransformRejectedNever(feature) == FALSE
TransformRejected(feature) == feature.transform \notin {"absent", "no-op"}

\* The record of a feature: its column, its name and the pass-through
\* transform.
ConvertFeature(feature) ==
    [column |-> feature.feature_col, name |-> feature.feature_name,
     transform |-> [name |-> "no-op"]]

\* The record of a label: split_pct [train, val, test] becomes split_rate.
ConvertLabelValTestSwapped(label) ==
    [column |-> label.label_col, type |-> label.task_type,
     split_rate |-> [train |-> label.split_pct[1], val |-> label.split_pct[3],
                     test |-> label.split_pct[2]]]
ConvertLabel(label) ==
    [column |-> label.label_col, type |-> label.task_type,
     split_rate |-> [train |-> label.split_pct[1], val |-> label.split_pct[2],
                     test |-> label.split_pct[3]]]

\* An optional list: None, or the list.
CvNone == [none |-> TRUE, list |-> <<>>]

CvSome(list) == [none |-> FALSE, list |-> list]

\* Whether a declaration is rejected with ValueError.
DeclRejected(decl) ==
    \/ FilesRejected(decl.files)
    \/ /\ ~decl.features.none
       /\ \E i \in DOMAIN decl.features.list : TransformRejected(decl.features.list[i])

\* The record of a declaration that is not rejected.
ConvertDecl(decl) ==
    [type |-> decl.type,
     files |-> FilesList(decl.files),
     features |-> IF decl.features.none THEN CvNone
                  ELSE CvSome([i \in DOMAIN decl.features.list |->
                                 ConvertFeature(decl.features.list[i])]),
     labels |-> IF decl.labels.none THEN CvNone
                ELSE CvSome([i \in DOMAIN decl.labels.list |->
                               ConvertLabel(decl.labels.list[i])])]

\* No result.
CvNoOut == [kind |-> "none", records |-> <<>>, doc |-> <<>>]

CvValueError == [CvNoOut EXCEPT !.kind = "ValueError"]

\* convert_nodes: a record per declaration in input order, or ValueError.
convert_nodes(nodes_entries) ==
    IF \E i \in DOMAIN nodes_entries : DeclRejected(nodes_entries[i])
    THEN CvValueError
    ELSE [CvNoOut EXCEPT !.kind = "records",
                         !.records = [i \in DOMAIN nodes_entries |->
                                        ConvertDecl(nodes_entries[i])]]

\* convert_edges: a record per declaration in input order, or ValueError.
convert_edges(edges_entries) ==
    IF \E i \in DOMAIN edges_entries : DeclRejected(edges_entries[i])
    THEN CvValueError
    ELSE [CvNoOut EXCEPT !.kind = "records",
                         !.records = [i \in DOMAIN edges_entries |->
                                        ConvertDecl(edges_entries[i])]]

\* The list under a key of the input dictionary; the empty list when the
\* key is missing.
DeclsUnderSkipsFirst(input, key) ==
    IF input[key].none THEN <<>> ELSE Tail(input[key].list)
DeclsUnder(input, key) ==
    IF input[key].none THEN <<>> ELSE input[key].list

\* convert_to_gsprocessing: the document of the converted nodes and edges.
convert_to_gsprocessing(input) ==
    LET nodes == convert_nodes(DeclsUnder(input, "nodes"))
        edges == convert_edges(DeclsUnder(input, "edges"))
    IN IF nodes.kind = "ValueError" \/ edges.kind = "ValueError"
       THEN CvValueError
       ELSE [CvNoOut EXCEPT !.kind = "doc",
                            !.doc = [version |-> "gsprocessing-v1.0",
                                     graph |-> [nodes |-> nodes.records,
                                                edges |-> edges.records]]]

\* The sequences of 1 to n elements of S.
SeqsUpTo(S, n) == UNION {[1..k -> S] : k \in 1..n}

\* The files of a declaration: a string, or a list of paths.
CvFiles ==
    {[form |-> "str", paths |-> <<p>>] : p \in CvPaths}
    \cup {[form |-> "list", paths |-> ps] : ps \in SeqsUpTo(CvPaths, MaxItems)}

CvPlainFile == [form |-> "str", paths |-> << <<"a", ".", "p">> >>]

\* The features of a declaration, with no transform, the pass-through
\* transform or another one.
CvFeatures ==
    {[feature_col |-> "citation_time", feature_name |-> "feat", transform |-> t] :
        t \in {"absent", "no-op", "max_min_norm"}}

\* The labels of a declaration; split_pct in tenths.
CvLabels ==
    {[label_col |-> "label", task_type |-> "classification", split_pct |-> s] :
        s \in {<<8, 1, 1>>, <<8, 2, 0>>, <<9, 1, 0>>}}

CvTypes == {"author", "paper"}

\* Declarations that differ in their files, in their features, in their
\* labels.
CvDeclsByFiles ==
    {[type |-> t, files |-> f, features |-> CvNone, labels |-> CvNone] :
        t \in CvTypes, f \in CvFiles}

CvDeclsByFeatures ==
    {[type |-> "paper", files |-> f, features |-> CvSome(fs), labels |-> CvNone] :
        f \in {CvPlainFile, [form |-> "list", paths |-> << <<"a", "*", ".", "p">> >>]},
        fs \in SeqsUpTo(CvFeatures, MaxItems)}

CvDeclsByLabels ==
    {[type |-> "paper", files |-> CvPlainFile, features |-> fs, labels |-> CvSome(ls)] :
        fs \in {CvNone, CvSome(<<CHOOSE f \in CvFeatures : f.transform = "absent">>)},
        ls \in SeqsUpTo(CvLabels, MaxItems)}

\* Declarations for inputs of several: a type, and a path with or without
\* a wildcard.
CvDeclsSmall ==
    {[type |-> t, files |-> [form |-> "str", paths |-> <<p>>],
      features |-> CvNone, labels |-> CvNone] :
        t \in CvTypes, p \in {<<"a", ".", "p">>, <<"a", "*", ".", "p">>}}

\* The optional lists of up to MaxDecls declarations of S.
CvEntries(S) == {CvNone, CvSome(<<>>)} \cup {CvSome(l) : l \in SeqsUpTo(S, MaxDecls)}

\* The input dictionaries: one declaration of any shape as a node or as an
\* edge, or several small ones of each kind, with and without the keys.
CvInputs ==
    \/ \E d \in CvDeclsByFiles \cup CvDeclsByFeatures \cup CvDeclsByLabels :
          \/ cv_input = [nodes |-> CvSome(<<d>>), edges |-> CvNone]
          \/ cv_input = [nodes |-> CvNone, edges |-> CvSome(<<d>>)]
    \/ \E ns \in CvEntries(CvDeclsSmall) : \E es \in CvEntries(CvDeclsSmall) :
          cv_input = [nodes |-> ns, edges |-> es]

CvStart(input) ==
    /\ cv_input = input
    /\ cv_call = "none"
    /\ cv_out = CvNoOut

CvIdle == CvStart([nodes |-> CvNone, edges |-> CvNone])

\* convert_nodes(input["nodes"])
CvConvertNodes ==
    /\ under_study = "converter"
    /\ ~cv_input.nodes.none
    /\ cv_call' = "convert_nodes"
    /\ cv_out' = convert_nodes(cv_input.nodes.list)
    /\ UNCHANGED cv_input
    /\ UNCHANGED nonCvVars

\* convert_edges(input["edges"])
CvConvertEdges ==
    /\ under_study = "converter"
    /\ ~cv_input.edges.none
    /\ cv_call' = "convert_edges"
    /\ cv_out' = convert_edges(cv_input.edges.list)
    /\ UNCHANGED cv_input
    /\ UNCHANGED nonCvVars

\* convert_to_gsprocessing(input)
CvConvertToGsprocessing ==
    /\ under_study = "converter"
    /\ cv_call' = "convert_to_gsprocessing"
    /\ cv_out' = convert_to_gsprocessing(cv_input)
    /\ UNCHANGED cv_input
    /\ UNCHANGED nonCvVars

\* ===================================================================
\* NoopTransformation
\* ===================================================================
NoopColumns == {"c1", "c2", "c3"}

\* The data types of a column: an array of numbers, an array of strings, a
\* string, a number.
NoopTypes == {"array_numeric", "array_string", "string", "numeric"}

\* The characters __init__ escapes in a separator.
SPECIAL_CHARACTERS == {"|"}

\* __init__: self.separator
NoopSeparator(separator) ==
    IF separator \in SPECIAL_CHARACTERS THEN "\\" \o separator ELSE separator

NoopNoOut == [kind |-> "none", df |-> <<>>]

\* Spark rejects a split or a cast to float of an array column.
SparkRejects(df, cols) == \E i \in DOMAIN cols : df[cols[i]] \in {"array_numeric", "array_string"}

\* apply(input_df)
NoopApplied(input_df, cols, separator) ==
    IF input_df[cols[1]] \in {"array_numeric", "array_string"}
    THEN IF input_df[cols[1]] # "array_numeric"
         THEN [NoopNoOut EXCEPT !.kind = "ValueError"]
         ELSE [kind |-> "df", df |-> input_df]
    ELSE IF SparkRejects(input_df, cols)
    THEN [NoopNoOut EXCEPT !.kind = "AnalysisException"]
    ELSE IF separator # "none"
    THEN [kind |-> "df", df |-> [c \in Range(cols) |-> "array_float"]]
    ELSE [kind |-> "df", df |-> [c \in Range(cols) |-> "float"]]

\* The transformations and the dataframes they are applied to: cols are
\* columns of the dataframe, each once.
NoopInputs ==
    \E S \in SUBSET NoopColumns \ {{}} : \E df \in [S -> NoopTypes] :
    \E cols \in UNION {[1..k -> S] : k \in 1..MaxItems} :
    \E separator \in {"none", ",", "|"} :
        /\ \A i, j \in DOMAIN cols : cols[i] = cols[j] => i = j
        /\ np_df = df
        /\ np_cols = cols
        /\ np_separator = NoopSeparator(separator)
        /\ np_out = NoopNoOut

NoopApply ==
    /\ under_study = "noop"
    /\ np_out' = NoopApplied(np_df, np_cols, np_separator)
    /\ UNCHANGED <<np_df, np_cols, np_separator, rm_data, rm_out>>
    /\ UNCHANGED nonToolVars

\* ===================================================================
\* remove_test_mask
\* ===================================================================
\* A tensor name is the sequence of its parts; the parts after the type are
\* the feature name.
MaskNames ==
    {<<"n1", "/", f>> : f \in {"feat", "label", "train_mask", "val_mask", "test_mask"}}
    \cup {<<"n1", "/", "test_mask", "_lp">>}

MaskTensors == {0, 1}

\* 'test_mask' in name
InName(part, name) == \E i \in DOMAIN name : name[i] = part

RmNoOut == [kind |-> "none", data |-> <<>>]

\* remove_test_mask(data): new_data
RemoveTestMask(data) ==
    [name \in {n \in DOMAIN data : ~InName("test_mask", n)} |-> data[name]]

RmInputs ==
    \E S \in SUBSET MaskNames : \E data \in [S -> MaskTensors] :
        /\ rm_data = data
        /\ rm_out = RmNoOut

RmCall ==
    /\ under_study = "remove_test_mask"
    /\ rm_out' = [kind |-> "returned", data |-> RemoveTestMask(rm_data)]
    /\ UNCHANGED <<np_df, np_cols, np_separator, np_out, rm_data>>
    /\ UNCHANGED nonToolVars

NoopIdle ==
    /\ np_df = <<>>
    /\ np_cols = <<>>
    /\ np_separator = "none"
    /\ np_out = NoopNoOut

RmIdle ==
    /\ rm_data = <<>>
    /\ rm_out = RmNoOut

ToolsIdle == NoopIdle /\ RmIdle

\* ===================================================================
\* _ReconstructedNeighborSampler and the loaders that wrap a DGL loader
\* ===================================================================
\* The graph: dataset.g.ntypes and dataset.g.canonical_etypes, in order, with
\* the source (etype[0]) and destination (etype[2]) node type of each
\* canonical edge type.
GNtypes == {"n1", "n2"}

GCanonicalEtypes == <<"e1", "e2", "e3">>

GEtypes == Range(GCanonicalEtypes)

EtSrc == ("e1" :> "n1") @@ ("e2" :> "n2") @@ ("e3" :> "n1")

EtDst == ("e1" :> "n2") @@ ("e2" :> "n1") @@ ("e3" :> "n1")

\* self._construct_feat_sampler = None
NoSampler == [present |-> FALSE, subg_etypes |-> <<>>,
              fanout |-> [e \in GEtypes |-> 0]]

\* The subg_etypes list after the inner loop over the canonical edge types
\* from position j on, for one requested destination type.
SubgEtypesOfNtypeAnySource(acc, dst_ntype, j, feats) ==
    acc \o SelectSeq(SubSeq(GCanonicalEtypes, j, Len(GCanonicalEtypes)),
                     LAMBDA etype : EtDst[etype] = dst_ntype)

RECURSIVE SubgEtypesOfNtype(_, _, _, _)
SubgEtypesOfNtype(acc, dst_ntype, j, feats) ==
    IF j > Len(GCanonicalEtypes) THEN acc
    ELSE LET etype == GCanonicalEtypes[j]
         IN SubgEtypesOfNtype(
                IF EtDst[etype] = dst_ntype /\ EtSrc[etype] \in feats
                THEN Append(acc, etype) ELSE acc,
                dst_ntype, j + 1, feats)

\* The subg_etypes list after the outer loop over constructed_embed_ntypes
\* from position i on.
RECURSIVE SubgEtypes(_, _, _, _)
SubgEtypes(acc, ntypes, i, feats) ==
    IF i > Len(ntypes) THEN acc
    ELSE SubgEtypes(SubgEtypesOfNtype(acc, ntypes[i], 1, feats), ntypes, i + 1, feats)

\* target_ntypes: the requested types that got at least one edge type.
ReconTargetNtypes(ntypes, feats) ==
    {EtDst[e] : e \in Range(SubgEtypes(<<>>, ntypes, 1, feats))} \cap Range(ntypes)

\* self._fanout of a sampler with the edge types subg: fanout on them, 0 on
\* every other canonical edge type.
ReconFanoutAllIncoming(subg, ntypes, fanout) ==
    [etype \in GEtypes |-> IF EtDst[etype] \in Range(ntypes) THEN fanout ELSE 0]

ReconFanout(subg, ntypes, fanout) ==
    [etype \in GEtypes |-> IF etype \in Range(subg) THEN fanout ELSE 0]

\* _ReconstructedNeighborSampler.__init__: the error raised ("none": none) and
\* the sampler built.
ReconInit(ntypes, fanout, feats) ==
    LET subg == SubgEtypes(<<>>, ntypes, 1, feats)
        remain_ntypes == Range(ntypes) \ ReconTargetNtypes(ntypes, feats)
        error == IF ~(fanout > 0 \/ fanout = -1) THEN "assert_cf_fanout"
                 ELSE IF remain_ntypes # {} THEN "assert_cf_remain"
                 ELSE IF ~(Len(subg) > 0) THEN "assert_cf_empty"
                 ELSE "none"
    IN [error |-> error,
        sampler |-> IF error = "none"
                    THEN [present |-> TRUE, subg_etypes |-> subg,
                          fanout |-> ReconFanout(subg, ntypes, fanout)]
                    ELSE NoSampler]

\* self._construct_feat_sampler = _ReconstructedNeighborSampler(...) if
\* len(construct_feat_ntype) > 0 else None
FeatSamplerInit ==
    IF Len(gl_cf_ntypes) > 0
    THEN ReconInit(gl_cf_ntypes, gl_cf_fanout, gl_feat_ntypes)
    ELSE [error |-> "none", sampler |-> NoSampler]

\* The errors of _ReconstructedNeighborSampler.__init__.
ReconErrors == {"assert_cf_fanout", "assert_cf_remain", "assert_cf_empty"}

\* The loop "for e in target_etypes: ... target_etypes.append(...)" of
\* GSgnnEdgeDataLoader.__init__ from position i on: the list grows while it
\* is iterated, so the appended types are visited too.
TargetEtypesKeysOnly(target_etypes, i, map) ==
    target_etypes

RECURSIVE TargetEtypes(_, _, _)
TargetEtypes(target_etypes, i, map) ==
    IF i > Len(target_etypes) THEN target_etypes
    ELSE LET e == target_etypes[i]
         IN IF e \in DOMAIN map /\ map[e] \notin Range(target_etypes)
            THEN TargetEtypes(Append(target_etypes, map[e]), i + 1, map)
            ELSE TargetEtypes(target_etypes, i + 1, map)

\* reverse_edge_types_map=None
NoRevMap == [none |-> TRUE, map |-> <<>>]

\* No DGL distributed edge loader was built.
NoDistArgs == [exclude |-> "unset", reverse_etypes |-> NoRevMap]

\* _prepare_dataloader: exclude is 'reverse_types' when
\* exclude_training_targets is set, else None.
ExcludeVal(exclude_training_targets) ==
    IF exclude_training_targets THEN "reverse_types" ELSE "none"

ForwardedReverseEtypesAlways(exclude_training_targets, rev_map) == rev_map

\* _prepare_dataloader: reverse_etypes is the caller's reverse map when
\* exclude_training_targets is set, else None.
ForwardedReverseEtypes(exclude_training_targets, rev_map) ==
    IF exclude_training_targets THEN rev_map ELSE NoRevMap

\* The exclude and reverse_etypes arguments of dgl's DistEdgeDataLoader in
\* _prepare_dataloader of the edge and the link-prediction train loader.
DistLoaderArgs(exclude_training_targets, rev_map) ==
    [exclude |-> ExcludeVal(exclude_training_targets),
     reverse_etypes |-> ForwardedReverseEtypes(exclude_training_targets, rev_map)]

\* modify_fanout_for_target_etype: per layer, fanout 0 on the target_etypes
\* and the layer's fanout on every other canonical edge type.
ModifyFanoutForTargetEtype(fanout, target_etypes) ==
    [h \in 1..Len(fanout) |->
        [etype \in GEtypes |->
            IF etype \in Range(target_etypes) THEN 0 ELSE fanout[h]]]

\* MultiLayerNeighborSampler(fanout) with one integer per layer: the integer
\* is the fanout of every edge type.
PlainFanout(fanout) ==
    [h \in 1..Len(fanout) |-> [etype \in GEtypes |-> fanout[h]]]

\* trim_data: the list cut to a length the number of workers divides.
TrimData(ids, workers) == SubSeq(ids, 1, Len(ids) - (Len(ids) % workers))

\* The classes whose _prepare_dataloader trims the target lists of a
\* training task.
TrimsAlways(kind, train_task) == kind \in {"lp", "node"}

Trims(kind, train_task) == kind \in {"lp", "node"} /\ train_task

\* target_idx after _prepare_dataloader.
Trimmed(kind, target_idx, train_task, workers) ==
    IF Trims(kind, train_task)
    THEN [t \in DOMAIN target_idx |-> TrimData(target_idx[t], workers)]
    ELSE target_idx

\* The assertion loops "for etype in target_idx: assert etype in
\* dataset.g.canonical_etypes" (dataset.g.ntypes for a node loader) fail.
MissingTypeFirstOnly(keys, known) ==
    Len(keys) > 0 /\ keys[1] \notin known

MissingType(keys, known) ==
    \E i \in DOMAIN keys : keys[i] \notin known

\* The classes whose construction builds a negative sampler.
BuildsNegativeSamplerTrainOnly(kind) == kind = "lp"

BuildsNegativeSampler(kind) == kind \in {"lp", "lp_test"}

\* The negative sampler's constructor raises.
NegativeSamplerRaises(k) == k <= 0

\* The neighbor sampler _prepare_dataloader of a link-prediction train
\* loader builds: with the mask only if a mask name is given and the edge
\* data of some canonical edge type has a field of that name.
LpNeighborSamplerIfAllCarry(variant, edge_mask, mask_etypes) ==
    IF edge_mask # "none" /\ mask_etypes = GEtypes
    THEN IF variant = "fast" THEN "fast_masked" ELSE "masked"
    ELSE "plain"

LpNeighborSampler(variant, edge_mask, mask_etypes) ==
    IF edge_mask # "none" /\ (\E etype \in GEtypes : etype \in mask_etypes)
    THEN IF variant = "fast" THEN "fast_masked" ELSE "masked"
    ELSE "plain"

\* A neighbor sampler built without a mask draws from all edges; one built
\* with the mask draws flagged edges only.
MayLeak(nbr_sampler) == nbr_sampler = "plain"

\* What a failed __init__ leaves.
InitFailed(error, target_idx) ==
    [error |-> error, target_idx |-> target_idx, target_etypes |-> <<>>,
     edge_fanout |-> <<>>, sampler |-> NoSampler, nbr_sampler |-> "none"]

\* GSgnnEdgeDataLoader.__init__
EdgeLoaderInit ==
    LET target_etypes == IF gl_remove /\ ~gl_rev_map.none
                         THEN TargetEtypes(gl_keys, 1, gl_rev_map.map)
                         ELSE <<>>
        edge_fanout_lis == IF gl_remove
                           THEN ModifyFanoutForTargetEtype(gl_fanout, target_etypes)
                           ELSE PlainFanout(gl_fanout)
        fs == FeatSamplerInit
    IN IF gl_remove /\ gl_rev_map.none
       THEN InitFailed("assert_reverse_map", gl_target_idx)
       ELSE IF MissingType(gl_keys, GEtypes)
       THEN InitFailed("assert_etype", gl_target_idx)
       ELSE IF fs.error # "none"
       THEN InitFailed(fs.error, gl_target_idx)
       ELSE [error |-> "none",
             target_idx |-> Trimmed("edge", gl_target_idx, gl_train_task, gl_num_workers),
             target_etypes |-> target_etypes,
             edge_fanout |-> edge_fanout_lis,
             sampler |-> fs.sampler,
             nbr_sampler |-> "plain"]

\* GSgnnLinkPredictionDataLoader.__init__
LinkPredictionLoaderInit ==
    LET fs == FeatSamplerInit
    IN IF MissingType(gl_keys, GEtypes)
       THEN InitFailed("assert_etype", gl_target_idx)
       ELSE IF fs.error # "none"
       THEN InitFailed(fs.error, gl_target_idx)
       ELSE IF BuildsNegativeSampler("lp") /\ NegativeSamplerRaises(gl_neg_k)
       THEN InitFailed("config_num_negative_edges", gl_target_idx)
       ELSE [error |-> "none",
             target_idx |-> Trimmed("lp", gl_target_idx, gl_train_task, gl_num_workers),
             target_etypes |-> <<>>,
             edge_fanout |-> PlainFanout(gl_fanout),
             sampler |-> fs.sampler,
             nbr_sampler |-> LpNeighborSampler(gl_variant, gl_edge_mask, gl_mask_etypes)]

\* GSgnnLinkPredictionTestDataLoader.__init__
LinkPredictionTestLoaderInit ==
    IF MissingType(gl_keys, GEtypes)
    THEN InitFailed("assert_etype", gl_target_idx)
    ELSE IF BuildsNegativeSampler("lp_test") /\ NegativeSamplerRaises(gl_neg_k)
    THEN InitFailed("config_num_negative_edges", gl_target_idx)
    ELSE [error |-> "none",
          target_idx |-> Trimmed("lp_test", gl_target_idx, gl_train_task, gl_num_workers),
          target_etypes |-> <<>>,
          edge_fanout |-> <<>>,
          sampler |-> NoSampler,
          nbr_sampler |-> "none"]

\* GSgnnNodeDataLoader.__init__
NodeLoaderInit ==
    LET fs == FeatSamplerInit
    IN IF fs.error # "none"
       THEN InitFailed(fs.error, gl_target_idx)
       ELSE IF MissingType(gl_keys, GNtypes)
       THEN InitFailed("assert_ntype", gl_target_idx)
       ELSE [error |-> "none",
             target_idx |-> Trimmed("node", gl_target_idx, gl_train_task, gl_num_workers),
             target_etypes |-> <<>>,
             edge_fanout |-> PlainFanout(gl_fanout),
             sampler |-> fs.sampler,
             nbr_sampler |-> "plain"]

\* No batch: the last call was not __next__.
GLNoBatch == [kind |-> "none", input_nodes |-> [nt \in GNtypes |-> {}],
              targets |-> <<>>, blocks |-> <<>>]

\* The loader's __init__ runs on the chosen arguments.
GLConstruct ==
    /\ gl_phase = "new"
    /\ LET r == CASE gl_kind = "edge" -> EdgeLoaderInit
                  [] gl_kind = "lp" -> LinkPredictionLoaderInit
                  [] gl_kind = "lp_test" -> LinkPredictionTestLoaderInit
                  [] gl_kind = "node" -> NodeLoaderInit
       IN /\ gl_phase' = IF r.error = "none" THEN "ready" ELSE "failed"
          /\ gl_error' = r.error
          /\ gl_target_idx' = r.target_idx
          /\ gl_target_etypes' = r.target_etypes
          /\ gl_edge_fanout' = r.edge_fanout
          /\ gl_sampler' = r.sampler
          /\ gl_nbr_sampler' = r.nbr_sampler
          /\ gl_dist_args' = IF r.error = "none" /\ gl_kind \in {"edge", "lp"}
                             THEN DistLoaderArgs(gl_exclude, gl_rev_map)
                             ELSE NoDistArgs
    /\ gl_last' = "init"
    /\ UNCHANGED <<gl_kind, gl_keys, gl_train_task, gl_num_workers, gl_remove,
                   gl_rev_map, gl_fanout, gl_neg_k, gl_cf_ntypes, gl_cf_fanout,
                   gl_feat_ntypes, gl_under, gl_ret, gl_pulled, gl_variant,
                   gl_edge_mask, gl_mask_etypes, gl_leak, gl_exclude>>
    /\ UNCHANGED nonGlVars

\* __iter__ of the edge, link-prediction and node loader: the DGL loader
\* starts a new epoch.
GLIter ==
    /\ gl_phase = "ready"
    /\ gl_kind \in {"edge", "lp", "node"}
    /\ gl_last' = "iter"
    /\ gl_under' = GLNoBatch
    /\ gl_ret' = GLNoBatch
    /\ gl_pulled' = 0
    /\ gl_leak' = FALSE
    /\ UNCHANGED <<gl_kind, gl_phase, gl_error, gl_keys, gl_target_idx,
                   gl_train_task, gl_num_workers, gl_remove, gl_rev_map,
                   gl_fanout, gl_neg_k, gl_cf_ntypes, gl_cf_fanout,
                   gl_feat_ntypes, gl_target_etypes, gl_edge_fanout, gl_sampler,
                   gl_variant, gl_edge_mask, gl_mask_etypes, gl_nbr_sampler,
                   gl_exclude, gl_dist_args>>
    /\ UNCHANGED nonGlVars

\* The message-passing blocks of the DGL neighbor sampler, one per layer,
\* when present is the set of edge types that have edges around the seeds:
\* a layer samples no edge of a type whose fanout is 0.
SampledBlocks(edge_fanout, present) ==
    [h \in 1..Len(edge_fanout) |->
        [recon |-> FALSE, hop |-> h,
         etypes |-> {etype \in present : edge_fanout[h][etype] # 0}]]

\* self._g.sample_neighbors(seeds, fanout): the edge types of the sampled
\* subgraph.
SampleNeighbors(seeds, fanout, present) ==
    {etype \in present : fanout[etype] # 0 /\ seeds[EtDst[etype]] # {}}

\* dgl.to_block(subg, seeds) when the sampled edges start at the nodes nb:
\* the source nodes of a type are its seeds and its sampled neighbors.
ToBlock(subg, seeds, nb) ==
    [block |-> [recon |-> TRUE, hop |-> 0, etypes |-> subg],
     srctypes |-> GNtypes,
     srcnodes |-> [nt \in GNtypes |->
                      seeds[nt] \cup
                      (IF \E etype \in subg : EtSrc[etype] = nt THEN nb ELSE {})]]

\* _ReconstructedNeighborSampler.sample
ReconSampleSourceTypesOnly(seeds, present, nb) ==
    LET b == ToBlock(SampleNeighbors(seeds, gl_sampler.fanout, present), seeds, nb)
    IN [block |-> b.block,
        input_nodes |-> [nt \in {EtSrc[e] : e \in Range(gl_sampler.subg_etypes)}
                             |-> b.srcnodes[nt]]]

ReconSample(seeds, present, nb) ==
    LET b == ToBlock(SampleNeighbors(seeds, gl_sampler.fanout, present), seeds, nb)
    IN [block |-> b.block,
        input_nodes |-> [nt \in b.srctypes |-> b.srcnodes[nt]]]

\* The rest of __next__ after self.dataloader.__next__() returned under.
AttachAtEnd(under, present, nb) ==
    IF gl_sampler.present /\ Len(under.blocks) > 0
    THEN LET r == ReconSample(under.input_nodes, present, nb)
         IN [under EXCEPT !.input_nodes = r.input_nodes,
                          !.blocks = Append(under.blocks, r.block)]
    ELSE under

Attach(under, present, nb) ==
    IF gl_sampler.present /\ Len(under.blocks) > 0
    THEN LET r == ReconSample(under.input_nodes, present, nb)
         IN [under EXCEPT !.input_nodes = r.input_nodes,
                          !.blocks = <<r.block>> \o under.blocks]
    ELSE under

\* The node IDs of a batch, per node type, and the neighbors a
\* reconstruction hop can reach.
InputNodeChoices == [GNtypes -> {{}, {0}}]

NeighborChoices == {{}, {0}, {1}}

\* __next__ of the edge, link-prediction and node loader.  The DGL loader
\* ends the epoch or gives a batch of target IDs (here the IDs of one type
\* that has some) with the input nodes and the blocks its sampler drew.
GLNext ==
    /\ gl_phase = "ready"
    /\ gl_kind \in {"edge", "lp", "node"}
    /\ \/ /\ gl_under' = [GLNoBatch EXCEPT !.kind = "stop"]
          /\ gl_ret' = [GLNoBatch EXCEPT !.kind = "stop"]
          /\ gl_leak' = FALSE
       \/ \E i \in {i \in DOMAIN gl_keys : Len(gl_target_idx[gl_keys[i]]) > 0} :
          \E present \in SUBSET GEtypes :
          \E pre \in InputNodeChoices :
          \E nb \in IF gl_sampler.present THEN NeighborChoices ELSE {{}} :
             LET under == [kind |-> "batch",
                           input_nodes |-> pre,
                           targets |-> <<gl_keys[i], gl_target_idx[gl_keys[i]]>>,
                           blocks |-> SampledBlocks(gl_edge_fanout, present)]
             IN /\ gl_under' = under
                /\ gl_ret' = Attach(under, present, nb)
                /\ gl_leak' \in
                       IF /\ gl_kind = "lp"
                          /\ gl_edge_mask # "none"
                          /\ MayLeak(gl_nbr_sampler)
                          /\ \E h \in DOMAIN under.blocks : under.blocks[h].etypes # {}
                       THEN BOOLEAN ELSE {FALSE}
    /\ gl_pulled' = 1
    /\ gl_last' = "next"
    /\ UNCHANGED <<gl_kind, gl_phase, gl_error, gl_keys, gl_target_idx,
                   gl_train_task, gl_num_workers, gl_remove, gl_rev_map,
                   gl_fanout, gl_neg_k, gl_cf_ntypes, gl_cf_fanout,
                   gl_feat_ntypes, gl_target_etypes, gl_edge_fanout, gl_sampler,
                   gl_variant, gl_edge_mask, gl_mask_etypes, gl_nbr_sampler,
                   gl_exclude, gl_dist_args>>
    /\ UNCHANGED nonGlVars

\* ===================================================================
\* Specifications
\* ===================================================================
\* A loader that is not the one under study: never constructed, never called.
AEIdle == AEConstruct([e \in AETypes |-> <<>>], 1, FALSE, FALSE)

LPIdle == LPConstruct("base", <<>>, <<>>, 1)

\* The arguments of a wrapping loader's __init__, before it runs.
GLInputs(kind, keys, target_idx, train_task, workers, remove, rev_map, fanout, k, cf_ntypes, cf_fanout, feats) ==
    /\ gl_kind = kind
    /\ gl_phase = IF kind = "none" THEN "idle" ELSE "new"
    /\ gl_error = "none"
    /\ gl_keys = keys
    /\ gl_target_idx = target_idx
    /\ gl_train_task = train_task
    /\ gl_num_workers = workers
    /\ gl_remove = remove
    /\ gl_rev_map = rev_map
    /\ gl_fanout = fanout
    /\ gl_neg_k = k
    /\ gl_cf_ntypes = cf_ntypes
    /\ gl_cf_fanout = cf_fanout
    /\ gl_feat_ntypes = feats
    /\ gl_target_etypes = <<>>
    /\ gl_edge_fanout = <<>>
    /\ gl_sampler = NoSampler
    /\ gl_last = "none"
    /\ gl_under = GLNoBatch
    /\ gl_ret = GLNoBatch
    /\ gl_pulled = 0
    /\ gl_nbr_sampler = "none"
    /\ gl_leak = FALSE

\* The class of a link-prediction train loader, its
\* edge_mask_for_gnn_embeddings and the edge types that carry the field.
GLMaskInputs(variant, edge_mask, mask_etypes) ==
    /\ gl_variant = variant
    /\ gl_edge_mask = edge_mask
    /\ gl_mask_etypes = mask_etypes

\* edge_mask_for_gnn_embeddings=None
NoMask == GLMaskInputs("plain", "none", {})

\* exclude_training_targets, before __init__ runs.
GLExcludeInputs(exclude_training_targets) ==
    /\ gl_exclude = exclude_training_targets
    /\ gl_dist_args = NoDistArgs

\* exclude_training_targets=False
NoExclude == GLExcludeInputs(FALSE)

\* No wrapping loader in this behaviour.
GLIdle ==
    /\ GLInputs("none", <<>>, <<>>, FALSE, 1, FALSE, NoRevMap, <<>>, 1, <<>>, 5, {})
    /\ NoMask
    /\ NoExclude

\* The lists of at most two distinct types out of the set S.
KeyLists(S) ==
    {<<>>} \cup {<<a>> : a \in S} \cup
    ({<<a, b>> : a \in S, b \in S} \ {<<a, a>> : a \in S})

\* A target index with the keys in this order and lens[i] target IDs under
\* the i-th key.
TargetIdxOf(keys, lens) ==
    [t \in Range(keys) |->
        LET i == CHOOSE i \in DOMAIN keys : keys[i] = t
        IN EidList(10 * i, lens[i])]

\* fanout=[5] * layers
FanoutOf(layers) == [h \in 1..layers |-> 5]

\* The reverse maps: None, and every map from some canonical edge types to
\* canonical edge types.
RevMaps ==
    {NoRevMap} \cup
    {[none |-> FALSE, map |-> f] : f \in UNION {[D -> GEtypes] : D \in SUBSET GEtypes}}

\* An edge loader that removes its target edge types: every reverse map,
\* one or two target types.
InitMasking ==
    \E keys \in KeyLists(GEtypes) \ {<<>>} :
    \E rev_map \in RevMaps :
        GLInputs("edge", keys, TargetIdxOf(keys, [i \in DOMAIN keys |-> 1]),
                 TRUE, 1, TRUE, rev_map, FanoutOf(MaxLayers), 1, <<>>, 5, {})

\* Every class, with target types in and not in the graph, target lists of
\* every length, a training or an evaluation task, and (link prediction)
\* valid and invalid numbers of negative edges.
InitChecks ==
    \E kind \in {"edge", "lp", "lp_test", "node"} :
    \E keys \in KeyLists(IF kind = "node" THEN {"n1", "n2", "nx"}
                                          ELSE {"e1", "e2", "ex"}) :
    \E lens \in [DOMAIN keys -> 0..MaxTargetLen] :
    \E train_task \in BOOLEAN :
    \E workers \in 1..MaxWorkers :
    \E k \in IF kind \in {"lp", "lp_test"} THEN {-1, 0, 1} ELSE {1} :
        GLInputs(kind, keys, TargetIdxOf(keys, lens), train_task, workers,
                 FALSE, NoRevMap, FanoutOf(1), k, <<>>, 5, {})

\* A loader asked to construct the features of some node types, over every
\* choice of the node types that carry features.
InitRecon ==
    \E kind \in {"edge", "lp", "node"} :
    \E layers \in 0..MaxLayers :
    \E cf_ntypes \in KeyLists(GNtypes) :
    \E cf_fanout \in {-1, 0, 5} :
    \E feats \in SUBSET GNtypes :
        LET keys == IF kind = "node" THEN <<"n1">> ELSE <<"e1">>
        IN GLInputs(kind, keys, TargetIdxOf(keys, <<1>>), FALSE, 1, FALSE,
                    NoRevMap, FanoutOf(layers), 1, cf_ntypes, cf_fanout, feats)

\* An edge loader that removes its target edge type and constructs the
\* features of a node type.
InitMaskingRecon ==
    \E cf_ntypes \in KeyLists(GNtypes) \ {<<>>} :
    \E feats \in SUBSET GNtypes :
        GLInputs("edge", <<"e1">>, TargetIdxOf(<<"e1">>, <<1>>), TRUE, 1, TRUE,
                 [none |-> FALSE, map |-> ("e1" :> "e2") @@ ("e2" :> "e1")],
                 FanoutOf(MaxLayers), 1, cf_ntypes, 5, feats)

\* An edge or link-prediction train loader that keeps or removes its target
\* edge type, with and without a reverse map, excluding the training targets
\* from neighbor sampling or not.
InitExclude ==
    \E kind \in {"edge", "lp"} :
    \E remove \in BOOLEAN :
    \E exclude \in BOOLEAN :
    \E rev_map \in {NoRevMap,
                    [none |-> FALSE, map |-> ("e1" :> "e2") @@ ("e2" :> "e1")]} :
        /\ GLInputs(kind, <<"e1">>, TargetIdxOf(<<"e1">>, <<1>>), TRUE, 1,
                    remove, rev_map, FanoutOf(MaxLayers), 1, <<>>, 5, {})
        /\ GLExcludeInputs(exclude)

\* A link-prediction train loader of every class, with and without a mask
\* name, over every choice of the edge types that carry the mask field.
InitEdgeMask ==
    \E variant \in {"plain", "fast", "all_etype"} :
    \E edge_mask \in {"none", "train_mask"} :
    \E mask_etypes \in SUBSET GEtypes :
    \E layers \in 1..MaxLayers :
        /\ GLInputs("lp", <<"e1">>, TargetIdxOf(<<"e1">>, <<1>>), TRUE, 1, FALSE, NoRevMap, FanoutOf(layers), 1, <<>>, 5, {})
        /\ GLMaskInputs(variant, edge_mask, mask_etypes)

\* The loaders and functions modelled after the first three, not under study.
LaterIdle == SemiIdle /\ PairIdle /\ CvIdle /\ ToolsIdle

InitAE == AEInputs /\ LPIdle /\ GLIdle /\ LaterIdle /\ under_study = "balanced"

NextAE == AEIter \/ AENext

SpecAE == InitAE /\ [][NextAE]_vars

InitLPT == LPInputs /\ AEIdle /\ GLIdle /\ LaterIdle /\ under_study = "lp_test"

NextLPT == LPIter \/ LPNext

SpecLPT == InitLPT /\ [][NextLPT]_vars

\* The consumer keeps calling __next__.
SpecLPTFair == SpecLPT /\ WF_vars(LPNext)

\* The test loader when calls into the graph storage may raise.
NextLPTFail == LPIter \/ LPNext \/ LPNextRaises

SpecLPTFail == InitLPT /\ [][NextLPTFail]_vars

InitGL ==
    /\ \/ (InitMasking \/ InitChecks \/ InitRecon \/ InitMaskingRecon) /\ NoMask
                                                                      /\ NoExclude
       \/ InitEdgeMask /\ NoExclude
       \/ InitExclude /\ NoMask
    /\ AEIdle
    /\ LPIdle
    /\ LaterIdle
    /\ under_study = "wrapper"

NextGL == GLConstruct \/ GLIter \/ GLNext

SpecGL == InitGL /\ [][NextGL]_vars

\* A semi-supervised loader, constructed and called.
InitSemi ==
    /\ SemiInputs /\ AEIdle /\ LPIdle /\ GLIdle /\ PairIdle /\ CvIdle /\ ToolsIdle
    /\ under_study = "semi_sup"

NextSemi == SemiIter \/ SemiZipNext \/ SemiNext

SpecSemi == InitSemi /\ [][NextSemi]_vars

\* Two loaders over one target mapping, called in any interleaving.
InitPair ==
    /\ PairInputs /\ AEIdle /\ LPIdle /\ GLIdle /\ SemiIdle /\ CvIdle /\ ToolsIdle
    /\ under_study = "pair"

NextPair == \E i \in Instances : PairIter(i) \/ PairNext(i)

SpecPair == InitPair /\ [][NextPair]_vars

\* The converter, called on an input dictionary.
InitConv ==
    /\ CvInputs /\ cv_call = "none" /\ cv_out = CvNoOut
    /\ AEIdle /\ LPIdle /\ GLIdle /\ SemiIdle /\ PairIdle /\ ToolsIdle
    /\ under_study = "converter"

NextConv == CvConvertNodes \/ CvConvertEdges \/ CvConvertToGsprocessing

SpecConv == InitConv /\ [][NextConv]_vars

\* NoopTransformation, applied to a dataframe.
InitNoop ==
    /\ NoopInputs /\ RmIdle
    /\ AEIdle /\ LPIdle /\ GLIdle /\ SemiIdle /\ PairIdle /\ CvIdle
    /\ under_study = "noop"

NextNoop == NoopApply

SpecNoop == InitNoop /\ [][NextNoop]_vars

\* remove_test_mask, called on a mapping of tensors.
InitRm ==
    /\ RmInputs /\ NoopIdle
    /\ AEIdle /\ LPIdle /\ GLIdle /\ SemiIdle /\ PairIdle /\ CvIdle
    /\ under_study = "remove_test_mask"

NextRm == RmCall

SpecRm == InitRm /\ [][NextRm]_vars

\* Any one of the loaders, constructed and called.
InitAll == InitAE \/ InitLPT \/ InitGL

NextAll ==
    \/ under_study = "balanced" /\ NextAE
    \/ under_study = "lp_test" /\ NextLPT
    \/ under_study = "wrapper" /\ NextGL

SpecAll == InitAll /\ [][NextAll]_vars

\* ===================================================================
\* Properties of AllEtypeDistEdgeDataLoader (checked under SpecAE)
\* ===================================================================
\* The last __next__ call's _next_data returned a minibatch.
AEBatch == last_call = "next" /\ ~next_ret.none

\* The entries of edge type e in a minibatch.
EntriesOf(items, e) == SelectSeq(items, LAMBDA it : it[1] = e)

\* _next_data_etype would return edges for e in this state.
HasSupply(e) ==
    /\ current_pos[e] < Len(dataset[e])
    /\ ~drop_last \/ current_pos[e] + bs_per_type[e] <= Len(dataset[e])

\* e cannot supply a full per-type batch any more in this epoch.
NoFullBatch(e) == current_pos[e] + bs_per_type[e] > Len(dataset[e])

\* The maximum of f over the edge types.
MaxOverTypes(f) == CHOOSE m \in Range(f) : \A e \in DOMAIN f : f[e] <= m

\* C1: for either drop_last setting, every minibatch _next_data returns holds
\* at least one edge ID of every edge type of the target mapping, taken from
\* that type's target edges.
C1_EveryTypeInEveryBatch ==
    AEBatch =>
        \A e \in AETypes :
            \E k \in DOMAIN next_ret.items :
                /\ next_ret.items[k][1] = e
                /\ next_ret.items[k][2] \in Range(dataset[e])

\* C1 witness: a drop-last minibatch in which one type returned None and
\* another returned edges.
C1_Witness ==
    /\ AEBatch
    /\ drop_last
    /\ \E e \in AETypes : next_etype[e].none

\* C2: _next_data returns None in a call exactly if no edge type has supply
\* when it is called, which is exactly if _next_data_etype returned None for
\* every type; if a type has supply, a minibatch is returned.
C2_EndIffAllExhausted ==
    [][last_call' = "next" =>
        /\ next_ret'.none <=> (\A e \in AETypes : ~HasSupply(e))
        /\ next_ret'.none <=> (\A e \in AETypes : next_etype'[e].none)]_vars

\* C2 witness: the end of an epoch that returned batches.
C2_Witness ==
    /\ last_call = "next"
    /\ next_ret.none
    /\ recv_idxs > 0

\* C3 as stated: expected_idxs is the maximum over the types of
\* ceil(type_count / bs_per_type[type]), whatever drop_last is.
C3_CeilWhateverDropLast ==
    ~ae_error =>
        expected_idxs =
            MaxOverTypes([e \in AETypes |-> CeilDiv(Len(dataset[e]), bs_per_type[e])])

\* C3 amended: expected_idxs is the maximum over the types of
\* ceil(type_count / bs_per_type[type]) when drop_last is false and of
\* floor(type_count / bs_per_type[type]) when drop_last is true.
C3_CeilOrFloorByDropLast ==
    ~ae_error =>
        expected_idxs =
            MaxOverTypes([e \in AETypes |->
                IF drop_last THEN Len(dataset[e]) \div bs_per_type[e]
                ELSE CeilDiv(Len(dataset[e]), bs_per_type[e])])

\* C3 witness: a drop-last loader whose longest-running type has a partial
\* last batch, so that floor and ceiling differ.
C3_Witness ==
    /\ ~ae_error
    /\ drop_last
    /\ expected_idxs <
         MaxOverTypes([e \in AETypes |-> CeilDiv(Len(dataset[e]), bs_per_type[e])])

\* C4 as stated: _reinit_dataset completes for every target mapping, with
\* bs_per_type[etype] = ceil(batch_size * type_count / total_count) >= 1 for
\* every type.
C4_BsPerTypeAtLeastOne ==
    /\ ~ae_error
    /\ \A e \in AETypes :
         /\ bs_per_type[e] = CeilDiv(batch_size * Len(dataset[e]), TotalEdges(dataset))
         /\ bs_per_type[e] >= 1

\* C5 as stated: in drop-last mode a type that can no longer supply a full
\* per-type batch contributes no edge to any later minibatch of the epoch.
C5_DropLastStopsContributing ==
    [][(last_call' = "next" /\ ~next_ret'.none /\ drop_last) =>
        \A e \in AETypes :
            NoFullBatch(e) => EntriesOf(next_ret'.items, e) = <<>>]_vars

\* C5 amended: in drop-last mode a type that can no longer supply a full
\* per-type batch contributes no further slice of its edges (its position
\* stays), and every later minibatch of the epoch holds exactly one edge of
\* it, redrawn from its own target edges.
C5_DropLastRedrawsOne ==
    [][(last_call' = "next" /\ ~next_ret'.none /\ drop_last) =>
        \A e \in AETypes :
            NoFullBatch(e) =>
                /\ next_etype'[e].none
                /\ current_pos'[e] = current_pos[e]
                /\ Len(EntriesOf(next_ret'.items, e)) = 1
                /\ EntriesOf(next_ret'.items, e)[1][2] \in Range(dataset[e])]_vars

\* C5 witness: a drop-last minibatch with a type that has edges left but
\* not a full batch of them.
C5_Witness ==
    /\ AEBatch
    /\ drop_last
    /\ \E e \in AETypes :
         /\ next_etype[e].none
         /\ current_pos[e] < Len(dataset[e])

\* C6: in no-drop mode every minibatch produced when a type has already
\* emitted all of its target edges holds exactly one edge ID of that type,
\* and the ID is one of the type's target edges.
C6_NoDropRedrawsOne ==
    [][(last_call' = "next" /\ ~next_ret'.none /\ ~drop_last) =>
        \A e \in AETypes :
            current_pos[e] = Len(dataset[e]) =>
                /\ Len(EntriesOf(next_ret'.items, e)) = 1
                /\ EntriesOf(next_ret'.items, e)[1][2] \in Range(dataset[e])]_vars

\* C6 witness: a no-drop minibatch with a redrawn edge of a type whose
\* edges were all emitted.
C6_Witness ==
    /\ AEBatch
    /\ ~drop_last
    /\ \E e \in AETypes :
         /\ next_etype[e].none
         /\ current_pos[e] = Len(dataset[e])
         /\ Len(dataset[e]) > 1

\* Every data_idx[etype] is a permutation of the positions 0..type_count-1.
DataIdxIsPermutation ==
    \A e \in AETypes :
        /\ Len(data_idx[e]) = Len(dataset[e])
        /\ Range(data_idx[e]) = 0..(Len(dataset[e]) - 1)

\* C7: __iter__, in any state, sets current_pos of every type, recv_idxs and
\* num_pending to 0; with shuffle on it sets every data_idx[etype] to a
\* permutation of 0..type_count-1, with shuffle off it leaves data_idx as it
\* is; data_idx[etype] is a permutation of the type's positions in every state.
C7_IterResets ==
    /\ []DataIdxIsPermutation
    /\ [][last_call' = "iter" =>
            /\ \A e \in AETypes : current_pos'[e] = 0
            /\ recv_idxs' = 0
            /\ num_pending' = 0
            /\ ~shuffle => data_idx' = data_idx]_vars

\* C7 witness: __iter__ has reshuffled a loader.
C7_Witness ==
    /\ last_call = "iter"
    /\ shuffle
    /\ \E e \in AETypes : data_idx[e] # Arange(Len(dataset[e]))

\* ===================================================================
\* Properties of GSgnnLinkPredictionTestDataLoader (checked under SpecLPT,
\* C9 under SpecLPTFair)
\* ===================================================================
\* The place of edge type e in the key order of target_idx.
KeyPos(e) == CHOOSE i \in DOMAIN lp_keys : lp_keys[i] = e

\* Batch b = <<etype, pos_eids>> is the final batch of its type: it holds the
\* last target edge of the type (or is the empty batch of a type without edges).
IsFinalBatch(b) ==
    LET t == lp_target_idx[b[1]]
    IN IF Len(t) = 0 THEN Len(b[2]) = 0
       ELSE Len(b[2]) > 0 /\ b[2][Len(b[2])] = t[Len(t)]

IsPrefix(a, b) == Len(a) <= Len(b) /\ a = SubSeq(b, 1, Len(a))

\* C8: within an epoch the batches are grouped by edge type in the key order
\* of target_idx: no batch of an earlier type follows a batch of a later type,
\* and a batch of a type is produced only after the final batch of every
\* earlier type.
C8_GroupedByKeyOrder ==
    \A j \in DOMAIN lp_log :
        /\ \A i \in 1..(j - 1) : KeyPos(lp_log[i][1]) <= KeyPos(lp_log[j][1])
        /\ \A k \in 1..(KeyPos(lp_log[j][1]) - 1) :
             \E i \in 1..(j - 1) : lp_log[i][1] = lp_keys[k] /\ IsFinalBatch(lp_log[i])

\* C8 witness: an epoch, after a restart, with two batches of one type
\* followed by a batch of the next type.
C8_Witness ==
    /\ lp_iters > 0
    /\ Len(lp_log) >= 3
    /\ lp_log[1][1] = lp_log[2][1]
    /\ lp_log[3][1] # lp_log[2][1]

\* C9: __next__ raises StopIteration exactly when no edge type remains; a
\* StopIteration changes nothing of the loader; and with batch_size >= 1 a
\* consumer that keeps calling __next__ reaches that state, and stays in it
\* once no __iter__ follows.
C9_StopIffExhausted ==
    /\ [][lp_last' = "next" =>
            ((lp_out'.kind = "stop") <=> (Len(remaining_etypes) = 0))]_vars
    /\ [][(lp_last' = "next" /\ Len(remaining_etypes) = 0) =>
            UNCHANGED <<lp_keys, lp_target_idx, lp_batch_size, lp_current_pos,
                        remaining_etypes, lp_log>>]_vars
    /\ <>[](Len(remaining_etypes) = 0)

\* C9 witness: StopIteration at the end of an epoch with several batches.
C9_Witness ==
    /\ lp_out.kind = "stop"
    /\ Len(lp_log) >= 3
    /\ Len(lp_keys) >= 2

\* C10: __iter__, in any state, sets every position to 0 and
\* remaining_etypes to all target types, and the batches returned after it
\* are the batches a freshly constructed loader over the same target_idx and
\* batch_size returns, in the same order.
C10_IterRestartsEpoch ==
    /\ lp_last = "iter" =>
         /\ \A e \in Range(lp_keys) : lp_current_pos[e] = 0
         /\ remaining_etypes = lp_keys
    /\ IsPrefix(lp_log, LpEpochFrom([e \in Range(lp_keys) |-> 0], lp_keys))

\* C10 witness: batches of a second type returned after an __iter__ that
\* was called in the middle of an epoch.
C10_Witness ==
    /\ lp_iter_from = "mid"
    /\ lp_last = "next"
    /\ Len(lp_log) >= 2
    /\ lp_log[Len(lp_log)][1] # lp_log[1][1]

\* ===================================================================
\* Properties of the wrapping loaders (checked under SpecGL)
\* ===================================================================
\* The last __next__ call returned a minibatch.
GLBatch == gl_last = "next" /\ gl_under.kind = "batch"

\* The last __next__ call applied the feature reconstruction.
ReconApplied == GLBatch /\ gl_sampler.present /\ Len(gl_under.blocks) > 0

\* __init__ has run.
Constructed == gl_phase \in {"ready", "failed"}

\* The target types and their registered reverse types.
TargetsAndReverses ==
    Range(gl_keys) \cup
    {gl_rev_map.map[e] : e \in Range(gl_keys) \cap DOMAIN gl_rev_map.map}

\* The requested node types that have no incoming canonical edge type whose
\* source type carries features.
LackingNtypes ==
    {nt \in Range(gl_cf_ntypes) :
        ~\E e \in GEtypes : EtDst[e] = nt /\ EtSrc[e] \in gl_feat_ntypes}

\* C11: an edge loader built with remove_target_edge_type=True and a reverse
\* map never returns a message-passing block that contains an edge of a
\* target edge type or of the registered reverse of one.
C11_NoTargetEdgesInBlocks ==
    (gl_kind = "edge" /\ gl_remove /\ ~gl_rev_map.none /\ GLBatch) =>
        \A h \in DOMAIN gl_ret.blocks :
            gl_ret.blocks[h].etypes \cap TargetsAndReverses = {}

\* C12: an edge loader built with remove_target_edge_type=True masks exactly
\* the target edge types and the registered reverse of each target type that
\* has one: target_etypes lists these types, each once, and the sampler's
\* fanout is 0 on them and on no other canonical edge type.
C12_MasksExactlyTargetsAndReverses ==
    (gl_kind = "edge" /\ gl_remove /\ gl_phase = "ready") =>
        /\ Range(gl_target_etypes) = TargetsAndReverses
        /\ \A i, j \in DOMAIN gl_target_etypes :
               gl_target_etypes[i] = gl_target_etypes[j] => i = j
        /\ \A h \in DOMAIN gl_edge_fanout : \A e \in GEtypes :
               gl_edge_fanout[h][e] = 0 <=> e \in TargetsAndReverses

\* C13: a loader whose target index names a type the graph does not have
\* fails in __init__: no loader results, and no minibatch is ever produced.
C13_UnknownTypeFailsConstruction ==
    (Constructed /\ \E t \in Range(gl_keys) :
                        t \notin (IF gl_kind = "node" THEN GNtypes ELSE GEtypes)) =>
        /\ gl_phase = "failed"
        /\ gl_error # "none"
        /\ gl_last = "init"
        /\ gl_ret = GLNoBatch

C13_Witness ==
    /\ gl_phase = "failed"
    /\ gl_kind = "lp_test"
    /\ gl_error = "assert_etype"
    /\ Len(gl_keys) = 2
    /\ gl_keys[1] \in GEtypes

C15_NextPrependsReconBlock ==
    gl_last = "next" =>
        /\ gl_pulled = 1
        /\ gl_ret.kind = gl_under.kind
        /\ gl_ret.targets = gl_under.targets
        /\ IF ReconApplied
           THEN /\ Len(gl_ret.blocks) = Len(gl_under.blocks) + 1
                /\ gl_ret.blocks[1].recon
                /\ \A h \in DOMAIN gl_under.blocks :
                       gl_ret.blocks[h + 1] = gl_under.blocks[h]
           ELSE /\ gl_ret.blocks = gl_under.blocks
                /\ gl_ret.input_nodes = gl_under.input_nodes

C15_Witness ==
    /\ ReconApplied
    /\ gl_kind = "node"
    /\ Len(gl_under.blocks) = 2
    /\ gl_ret.input_nodes # gl_under.input_nodes

\* C16: when __next__ applies the feature reconstruction, every node type of
\* the DGL loader's input nodes is a node type of the returned input nodes,
\* with at least the same nodes.
C16_ReconKeepsInputNodes ==
    ReconApplied =>
        \A nt \in DOMAIN gl_under.input_nodes :
            /\ nt \in DOMAIN gl_ret.input_nodes
            /\ gl_under.input_nodes[nt] \subseteq gl_ret.input_nodes[nt]

C16_Witness ==
    /\ ReconApplied
    /\ gl_kind = "lp"
    /\ gl_sampler.subg_etypes = <<"e1">>
    /\ gl_under.input_nodes = [nt \in GNtypes |-> {0}]
    /\ gl_ret.input_nodes["n1"] = {0, 1}

\* C17: when __init__ gets as far as building the reconstruction sampler,
\* the sampler's construction fails if some requested node type has no
\* incoming edge type from a node type with features, and succeeds if every
\* requested type has one and the fanout is positive or -1.
C17_ReconConstructionFailsIffLacking ==
    (Constructed /\ Len(gl_cf_ntypes) > 0
                 /\ gl_error \notin {"assert_reverse_map", "assert_etype"}) =>
        /\ LackingNtypes # {} => gl_phase = "failed" /\ gl_error \in ReconErrors
        /\ (LackingNtypes = {} /\ (gl_cf_fanout > 0 \/ gl_cf_fanout = -1)) =>
               /\ gl_error \notin ReconErrors
               /\ gl_phase = "ready" => gl_sampler.present

C17_Witness ==
    /\ gl_phase = "failed"
    /\ gl_error = "assert_cf_remain"
    /\ gl_cf_ntypes = <<"n1", "n2">>
    /\ gl_feat_ntypes = {"n2"}

\* C18: a constructed reconstruction sampler has the configured fanout on
\* the canonical edge types that end at a requested node type and start at
\* a node type with features, and fanout 0 on every other canonical edge
\* type; no later call changes the sampler.
C18_ReconFanoutFixed ==
    /\ [](gl_phase = "ready" /\ gl_sampler.present =>
            \A e \in GEtypes :
                gl_sampler.fanout[e] =
                    IF EtDst[e] \in Range(gl_cf_ntypes) /\ EtSrc[e] \in gl_feat_ntypes
                    THEN gl_cf_fanout ELSE 0)
    /\ [][gl_phase = "ready" => gl_sampler' = gl_sampler]_vars

C18_Witness ==
    /\ ReconApplied
    /\ gl_cf_ntypes = <<"n1">>
    /\ gl_feat_ntypes = {"n2"}
    /\ gl_sampler.fanout["e2"] = 5
    /\ gl_sampler.fanout["e3"] = 0

\* C19: after the construction of an edge, link-prediction or node loader
\* for a training task the number of workers divides the length of every
\* target ID list.
C19_TrainingTargetsTrimmed ==
    (gl_phase = "ready" /\ gl_train_task /\ gl_kind \in {"edge", "lp", "node"}) =>
        \A t \in DOMAIN gl_target_idx :
            Len(gl_target_idx[t]) % gl_num_workers = 0

\* C20: no call changes a target index, except the construction of a
\* training loader other than the link-prediction test loader: not the
\* construction of an evaluation loader or of a test loader, and no
\* __iter__ or __next__ of any loader.
C20_TargetIdxChangesOnlyInTrainingInit ==
    [][/\ dataset' = dataset
       /\ lp_target_idx' = lp_target_idx
       /\ gl_target_idx' # gl_target_idx =>
              gl_phase = "new" /\ gl_train_task /\ gl_kind # "lp_test"]_vars

C20_Witness ==
    /\ under_study = "wrapper"
    /\ gl_last = "next"
    /\ ~gl_train_task
    /\ gl_kind = "node"
    /\ gl_num_workers = 2
    /\ \E t \in DOMAIN gl_target_idx : Len(gl_target_idx[t]) = 3

C22_BatchCarriesSamplerTag ==
    /\ [](lp_out.kind = "batch" =>
            /\ DOMAIN lp_out = {"kind", "etype", "eids", "end", "neg_by", "tag"}
            /\ lp_class = "base" =>
                   /\ lp_out.neg_by = "GlobalUniform"
                   /\ lp_out.tag = BUILTIN_LP_UNIFORM_NEG_SAMPLER
            /\ lp_class = "joint" =>
                   /\ lp_out.neg_by = "JointUniform"
                   /\ lp_out.tag = BUILTIN_LP_JOINT_NEG_SAMPLER)
    /\ [][/\ lp_neg_sample_type' = lp_neg_sample_type
          /\ lp_negative_sampler' = lp_negative_sampler
          /\ (lp_out.kind = "batch" /\ lp_out'.kind = "batch") => lp_out'.tag = lp_out.tag]_vars

C22_Witness ==
    /\ lp_class = "joint"
    /\ lp_iters = 1
    /\ lp_out.kind = "batch"
    /\ Len(lp_log) = 2
    /\ lp_out.tag = "joint"

\* C26: a __next__ of the test loader that raises out of a graph storage
\* call leaves the positions and the remaining types as they were, and the
\* __next__ that follows attempts the same edges of the same type.
C26_FailureKeepsPosition ==
    /\ [][lp_out'.kind = "error" =>
            /\ lp_current_pos' = lp_current_pos
            /\ remaining_etypes' = remaining_etypes
            /\ lp_log' = lp_log]_vars
    /\ [][(lp_out.kind = "error" /\ lp_out'.kind \in {"batch", "error"}) =>
            /\ lp_out'.etype = lp_out.etype
            /\ lp_out'.eids = lp_out.eids]_vars

C26_Witness ==
    /\ lp_fails = 1
    /\ lp_out.kind = "batch"
    /\ Len(lp_log) = 2
    /\ lp_out.eids # <<>>

\* C23: the semi-supervised loader steps its two loaders together: the
\* i-th pair returned in an epoch is the i-th labeled batch with the i-th
\* unlabeled batch, from the object __iter__ returned and from __next__
\* alike, and the epoch ends after as many pairs as the loader with fewer
\* batches has batches.
C23_PairsInLockstep ==
    ss_phase = "ready" =>
        /\ \A i \in DOMAIN ss_log : ss_log[i] = <<i, i>>
        /\ Len(ss_log) <= Min2(CeilDiv(ss_n_labeled, ss_labeled_bs),
                               CeilDiv(ss_n_unlabeled, ss_unlabeled_bs))
        /\ ss_out.kind = "stop" =>
               Len(ss_log) = Min2(CeilDiv(ss_n_labeled, ss_labeled_bs),
                                  CeilDiv(ss_n_unlabeled, ss_unlabeled_bs))

C23_Witness ==
    /\ ss_phase = "ready"
    /\ ss_out.kind = "stop"
    /\ ss_last = "zip_next"
    /\ Len(ss_log) = 2
    /\ ss_labeled_pos = 3
    /\ ss_unlabeled_pos = 2

\* C24 (as stated): the batch sizes of the labeled and the unlabeled loader
\* add up to the batch_size the semi-supervised loader was given.
C24_HalvesSumToBatchSize ==
    ss_phase # "idle" => ss_labeled_bs + ss_unlabeled_bs = ss_batch_size

\* C25: of two loaders built over the same target mapping, __iter__ and
\* __next__ on one never change the position counters, the index
\* permutations or the remaining-type list of the other, in any
\* interleaving of the calls.
C25_PositionStateIsPerInstance ==
    [][\A i \in Instances : pr_last'.inst # i =>
          /\ pr_pos'[i] = pr_pos[i]
          /\ pr_data_idx'[i] = pr_data_idx[i]
          /\ pr_remaining'[i] = pr_remaining[i]]_vars

C25_Witness ==
    /\ pr_last = [inst |-> 2, call |-> "iter"]
    /\ pr_kind = "balanced"
    /\ pr_shuffle
    /\ pr_pos[1][AEKeys[1]] = 2
    /\ pr_pos[2][AEKeys[1]] = 0
    /\ pr_data_idx[1][AEKeys[1]] # pr_data_idx[2][AEKeys[1]]

\* ===================================================================
\* Properties of the converter
\* ===================================================================
\* The declarations the last call was given.
CvGiven ==
    IF cv_call = "convert_nodes" THEN cv_input.nodes.list
    ELSE IF cv_call = "convert_edges" THEN cv_input.edges.list
    ELSE (IF cv_input.nodes.none THEN <<>> ELSE cv_input.nodes.list)
         \o (IF cv_input.edges.none THEN <<>> ELSE cv_input.edges.list)

\* The records the last call returned, the nodes of a document before its
\* edges.
CvReturned ==
    IF cv_out.kind = "records" THEN cv_out.records
    ELSE IF cv_out.kind = "doc" THEN cv_out.doc.graph.nodes \o cv_out.doc.graph.edges
    ELSE <<>>

\* Some file path of the declaration holds '*' or '?'.
CvWildcarded(decl) ==
    \E i \in DOMAIN decl.files.paths : \E k \in DOMAIN decl.files.paths[i] :
        decl.files.paths[i][k] = "*" \/ decl.files.paths[i][k] = "?"

\* C27: convert_nodes and convert_edges raise ValueError, and return no
\* record, when a file path of some declaration holds '*' or '?', be the
\* files a string or a list.
C27_WildcardRaisesValueError ==
    (cv_call \in {"convert_nodes", "convert_edges"}
     /\ \E i \in DOMAIN CvGiven : CvWildcarded(CvGiven[i])) =>
        /\ cv_out.kind = "ValueError"
        /\ cv_out.records = <<>>

C27_Witness ==
    /\ cv_call = "convert_edges"
    /\ Len(CvGiven) = 1
    /\ CvGiven[1].files.form = "list"
    /\ Len(CvGiven[1].files.paths) = 2
    /\ ~HasWildcard(CvGiven[1].files.paths[1])
    /\ HasWildcard(CvGiven[1].files.paths[2])
    /\ cv_out.kind = "ValueError"

\* C28: the converter raises ValueError when some feature names a transform
\* other than the pass-through one; a feature without a transform is
\* accepted and its record has the transform {name: 'no-op'}.
C28_OnlyPassThroughTransform ==
    cv_call # "none" =>
        /\ (\E i \in DOMAIN CvGiven :
               /\ ~CvGiven[i].features.none
               /\ \E j \in DOMAIN CvGiven[i].features.list :
                     CvGiven[i].features.list[j].transform \notin {"absent", "no-op"})
              => cv_out.kind = "ValueError"
        /\ cv_out.kind # "ValueError" =>
              \A i \in DOMAIN CvGiven :
                  ~CvGiven[i].features.none =>
                      /\ ~CvReturned[i].features.none
                      /\ DOMAIN CvReturned[i].features.list = DOMAIN CvGiven[i].features.list
                      /\ \A j \in DOMAIN CvGiven[i].features.list :
                            CvReturned[i].features.list[j].transform = [name |-> "no-op"]
        /\ (\A i \in DOMAIN CvGiven :
               /\ ~CvWildcarded(CvGiven[i])
               /\ CvGiven[i].features.none
                  \/ \A j \in DOMAIN CvGiven[i].features.list :
                        CvGiven[i].features.list[j].transform = "absent")
              => cv_out.kind # "ValueError"

C28_Witness ==
    /\ cv_call = "convert_nodes"
    /\ cv_out.kind = "records"
    /\ ~CvGiven[1].features.none
    /\ Len(CvGiven[1].features.list) = 2
    /\ CvGiven[1].features.list[1].transform = "absent"
    /\ CvReturned[1].features.list[1].transform.name = "no-op"

\* C29: what convert_to_gsprocessing returns is a document with the version
\* 'gsprocessing-v1.0' and a graph of a nodes list and an edges list, never
\* null: a list is empty when the input has no such key or an empty list
\* under it, and else holds one record per declaration, in input order.
\* (It returns nothing, raising ValueError, exactly when a declaration is
\* rejected for a wildcard or a transform.)
C29_DocumentWellFormed ==
    cv_call = "convert_to_gsprocessing" =>
        /\ cv_out.kind \in {"doc", "ValueError"}
        /\ cv_out.kind = "ValueError" <=>
              \E i \in DOMAIN CvGiven :
                  \/ CvWildcarded(CvGiven[i])
                  \/ /\ ~CvGiven[i].features.none
                     /\ \E j \in DOMAIN CvGiven[i].features.list :
                           CvGiven[i].features.list[j].transform \notin {"absent", "no-op"}
        /\ cv_out.kind = "doc" =>
              /\ cv_out.doc.version = "gsprocessing-v1.0"
              /\ DOMAIN cv_out.doc.graph = {"nodes", "edges"}
              /\ \A key \in {"nodes", "edges"} :
                    LET given == IF cv_input[key].none THEN <<>> ELSE cv_input[key].list
                        got == cv_out.doc.graph[key]
                    IN /\ Len(got) = Len(given)
                       /\ \A i \in DOMAIN given : got[i].type = given[i].type

C29_Witness ==
    /\ cv_call = "convert_to_gsprocessing"
    /\ cv_out.kind = "doc"
    /\ cv_input.nodes.none
    /\ ~cv_input.edges.none
    /\ Len(cv_out.doc.graph.edges) = 2
    /\ cv_out.doc.graph.edges[1].type # cv_out.doc.graph.edges[2].type
    /\ cv_out.doc.graph.nodes = <<>>

\* C30: the labels of a converted declaration are those declared, as many
\* and in the same order, and split_pct [a, b, c] of each becomes
\* split_rate {train: a, val: b, test: c}, the values unchanged.
C30_SplitPctToSplitRate ==
    cv_out.kind \in {"records", "doc"} =>
        \A i \in DOMAIN CvGiven :
            /\ CvReturned[i].labels.none = CvGiven[i].labels.none
            /\ Len(CvReturned[i].labels.list) = Len(CvGiven[i].labels.list)
            /\ \A j \in DOMAIN CvGiven[i].labels.list :
                  LET pct == CvGiven[i].labels.list[j].split_pct
                  IN CvReturned[i].labels.list[j].split_rate =
                        [train |-> pct[1], val |-> pct[2], test |-> pct[3]]

C30_Witness ==
    /\ cv_call = "convert_edges"
    /\ cv_out.kind = "records"
    /\ Len(CvGiven[1].labels.list) = 2
    /\ CvGiven[1].labels.list[1].split_pct = <<8, 2, 0>>
    /\ CvGiven[1].labels.list[2].split_pct = <<9, 1, 0>>
    /\ CvReturned[1].labels.list[2].split_rate = [train |-> 9, val |-> 1, test |-> 0]

\* ===================================================================
\* Properties of NoopTransformation and remove_test_mask
\* ===================================================================
\* C31 (as stated): the dataframe apply returns has the columns given at
\* initialization and no others, and apply raises ValueError for an array
\* column whose elements are not numeric.
C31_OnlyInitColumnsReturned ==
    /\ np_out.kind = "df" => DOMAIN np_out.df = Range(np_cols)
    /\ (np_out.kind # "none" /\ np_df[np_cols[1]] = "array_string") =>
           np_out.kind = "ValueError"

\* C40 (as stated): what remove_test_mask returns has no entry whose name
\* holds train_mask, val_mask or test_mask, has every other entry of data
\* with its value, and data itself is as it was.
C40_NoSplitMaskLeft ==
    /\ [](rm_out.kind = "returned" =>
           /\ \A name \in DOMAIN rm_out.data :
                 \A mask \in {"train_mask", "val_mask", "test_mask"} : ~InName(mask, name)
           /\ \A name \in DOMAIN rm_data :
                 (\A mask \in {"train_mask", "val_mask", "test_mask"} : ~InName(mask, name))
                    => (name \in DOMAIN rm_out.data /\ rm_out.data[name] = rm_data[name]))
    /\ [][rm_data' = rm_data]_vars

\* ===================================================================
\* Further properties of AllEtypeDistEdgeDataLoader (checked under SpecAE)
\* ===================================================================
\* _next_data returned None in the last __next__ call.
AEEnded == last_call = "next" /\ next_ret.none

\* The sequence s holds no element twice.
NoRepeats(s) == \A i, j \in DOMAIN s : s[i] = s[j] => i = j

\* The sum of the per-type batch sizes.
SumBsPerType == bs_per_type[AEKeys[1]] + bs_per_type[AEKeys[2]]

\* C32: for either drop_last setting, _next_data yields expected_idxs
\* minibatches in an epoch before it first returns None: every minibatch it
\* yields is returned by __next__ at once (none is left pending), __next__
\* never waits for a minibatch that does not come, and when _next_data
\* returns None exactly expected_idxs minibatches were received.
C32_ProducedEqualsExpected ==
    ~ae_error =>
        /\ num_pending = 0
        /\ next_out # "blocked"
        /\ recv_idxs <= expected_idxs
        /\ AEBatch => next_out = "batch"
        /\ AEEnded => recv_idxs = expected_idxs

C32_Witness ==
    /\ drop_last
    /\ AEEnded
    /\ recv_idxs = 2
    /\ \E e \in AETypes : current_pos[e] < Len(dataset[e])

\* C33: in no-drop mode every target edge of a type is emitted at most once
\* as a regular sample in an epoch and, when the epoch is complete, exactly
\* once; in a minibatch a type's entries are its regular samples, or one
\* redrawn edge when the type has emitted all of its edges.
C33_EveryEdgeOnceRegular ==
    (~ae_error /\ ~drop_last) =>
        /\ \A e \in AETypes :
              /\ NoRepeats(ae_regular[e])
              /\ Range(ae_regular[e]) \subseteq Range(dataset[e])
        /\ AEEnded => \A e \in AETypes : Range(ae_regular[e]) = Range(dataset[e])
        /\ AEBatch =>
              \A e \in AETypes :
                  LET ent == EntriesOf(next_ret.items, e)
                  IN IF next_etype[e].none
                     THEN Len(ent) = 1 /\ Len(ae_regular[e]) = Len(dataset[e])
                     ELSE [k \in DOMAIN ent |-> ent[k][2]] = next_etype[e].ids

C33_Witness ==
    /\ ~drop_last
    /\ shuffle
    /\ AEEnded
    /\ Len(dataset[AEKeys[1]]) = 3
    /\ Len(dataset[AEKeys[2]]) = 2
    /\ ae_regular[AEKeys[1]] # dataset[AEKeys[1]]
    /\ recv_idxs = 2

\* C34: current_pos of every type stays between 0 and the number of its
\* target edges and never decreases but in __iter__; in drop-last mode
\* every regular slice has bs_per_type edges and current_pos is a multiple
\* of bs_per_type.
C34_PositionsBounded ==
    /\ [](~ae_error =>
            \A e \in AETypes :
                /\ 0 <= current_pos[e]
                /\ current_pos[e] <= Len(dataset[e])
                /\ drop_last =>
                      /\ current_pos[e] % bs_per_type[e] = 0
                      /\ (last_call = "next" /\ ~next_etype[e].none) =>
                             Len(next_etype[e].ids) = bs_per_type[e])
    /\ [][last_call' # "iter" =>
            \A e \in AETypes : current_pos'[e] >= current_pos[e]]_vars

C34_Witness ==
    /\ drop_last
    /\ last_call = "next"
    /\ current_pos[AEKeys[1]] = 2
    /\ bs_per_type[AEKeys[1]] = 2
    /\ Len(dataset[AEKeys[1]]) = 3
    /\ next_etype[AEKeys[1]].none

\* C35: once _next_data returned None, every __next__ that follows without
\* an __iter__ gets None from it again and leaves all positions as they
\* are; __iter__ puts every position back to 0, and the epoch that follows
\* ends only after expected_idxs minibatches.
C35_ExhaustedUntilIter ==
    /\ [][(AEEnded /\ last_call' = "next") =>
            /\ next_ret'.none
            /\ current_pos' = current_pos
            /\ recv_idxs' = recv_idxs]_vars
    /\ [](last_call = "iter" =>
            /\ \A e \in AETypes : current_pos[e] = 0
            /\ recv_idxs = 0)
    /\ []((~ae_error /\ AEEnded) => recv_idxs = expected_idxs)

C35_Witness ==
    /\ AEEnded
    /\ shuffle
    /\ \E e \in AETypes : data_idx[e] # Arange(Len(dataset[e]))
    /\ recv_idxs = 2
    /\ next_out = "stop"

\* C36: when every type has a target edge, the per-type batch sizes add up
\* to at least batch_size and to less than batch_size plus the number of
\* types, and every minibatch holds at least one edge ID per type and at
\* most that sum of edge IDs.
C36_BatchSizeSumBounds ==
    (\A e \in AETypes : Len(dataset[e]) >= 1) =>
        /\ ~ae_error
        /\ SumBsPerType >= batch_size
        /\ SumBsPerType < batch_size + Cardinality(AETypes)
        /\ AEBatch =>
              /\ Len(next_ret.items) >= Cardinality(AETypes)
              /\ Len(next_ret.items) <= SumBsPerType

C36_Witness ==
    /\ AEBatch
    /\ batch_size = 3
    /\ SumBsPerType = 4
    /\ Len(next_ret.items) = 4

\* ===================================================================
\* Further properties of GSgnnLinkPredictionTestDataLoader (under SpecLPT)
\* ===================================================================
\* The batches of edge type e among the batches returned, in order.
LpBatchesOf(e) == SelectSeq(lp_log, LAMBDA b : b[1] = e)

\* The edge IDs of a sequence of batches, one after the other.
RECURSIVE LpFlat(_)
LpFlat(batches) ==
    IF batches = <<>> THEN <<>> ELSE batches[1][2] \o LpFlat(Tail(batches))

\* C37: no batch has more than batch_size edges; and when the epoch is
\* complete the batches of every type, one after the other, are the type's
\* target edges in target_idx order, every batch but the last of its type
\* has batch_size edges, a type of n >= 1 edges has ceil(n / batch_size)
\* batches, none empty, and a type without edges has one empty batch.
C37_EveryEdgeInOneBatch ==
    /\ \A i \in DOMAIN lp_log : Len(lp_log[i][2]) <= lp_batch_size
    /\ Len(remaining_etypes) = 0 =>
          \A e \in Range(lp_keys) :
              LET b == LpBatchesOf(e)
                  n == Len(lp_target_idx[e])
              IN /\ LpFlat(b) = lp_target_idx[e]
                 /\ \A i \in 1..(Len(b) - 1) : Len(b[i][2]) = lp_batch_size
                 /\ n >= 1 => /\ Len(b) = CeilDiv(n, lp_batch_size)
                              /\ \A i \in DOMAIN b : b[i][2] # <<>>
                 /\ n = 0 => Len(b) = 1 /\ b[1][2] = <<>>

C37_Witness ==
    /\ Len(remaining_etypes) = 0
    /\ lp_batch_size = 2
    /\ Len(lp_keys) = 3
    /\ Len(lp_target_idx[lp_keys[1]]) = 3
    /\ Len(lp_target_idx[lp_keys[2]]) = 0
    /\ Len(lp_target_idx[lp_keys[3]]) = 2
    /\ Len(lp_log) = 4

\* C38: remaining_etypes is a suffix of the key order of target_idx; a
\* remaining type other than the first is at position 0; a type no longer
\* remaining is at a position not below its number of edges; and every
\* position is a multiple of batch_size.
C38_RemainingIsSuffix ==
    /\ \E k \in 0..Len(lp_keys) :
          remaining_etypes = SubSeq(lp_keys, k + 1, Len(lp_keys))
    /\ \A i \in 2..Len(remaining_etypes) : lp_current_pos[remaining_etypes[i]] = 0
    /\ \A e \in Range(lp_keys) \ Range(remaining_etypes) :
          lp_current_pos[e] >= Len(lp_target_idx[e])
    /\ \A e \in Range(lp_keys) : lp_current_pos[e] % lp_batch_size = 0

C38_Witness ==
    /\ Len(lp_keys) = 3
    /\ Len(remaining_etypes) = 2
    /\ lp_batch_size = 2
    /\ lp_current_pos[lp_keys[1]] = 2
    /\ Len(lp_target_idx[lp_keys[1]]) = 1
    /\ lp_current_pos[lp_keys[2]] = 2
    /\ lp_current_pos[lp_keys[3]] = 0

====
